---------------------------- MODULE Spec2Model ----------------------------
(***************************************************************************)
(* Model of the amplitude-addressing core of the MOSQ statevector          *)
(* simulator: the bit-index engine (index0, indexes) of indexes.hpp and    *)
(* the parallel traversal primitive apply_lambda that drives an update     *)
(* function over the index blocks.                                         *)
(*                                                                         *)
(* uint_t is a 64-bit unsigned integer.  Every qubit position of the model *)
(* is below MaxQubits (and 4 in the documented example), so every value    *)
(* the bit operations produce stays far below 2^64 and the arithmetic on   *)
(* naturals below is exact for the modelled inputs.                        *)
(***************************************************************************)
EXTENDS Integers, Sequences, FiniteSets, Bags, TLC

\* ------------------------------------------------------------------ bounds
\* Total qubit count M of a register ranges over 1..MaxQubits.
MaxQubits == 3
\* omp_threads ranges over 0..MaxThreads.
MaxThreads == 2
\* start ranges over 0..MaxStart.
MaxStart == 1
\* A call of apply_lambda traverses at most MaxUnits reduced indices.
MaxUnits == 4
\* Amplitudes are abstracted to residues modulo AmpMod.
AmpMod == 5

VARIABLES
  \* --- bit-index engine, called on its own
  ix_M,          \* total qubit count the call is made for
  ix_qubits,     \* argument qubits (qs)
  ix_sorted,     \* argument qubits_sorted
  ix_k,          \* argument k
  ix_index0,     \* value returned by index0, -1 before the call
  ix_ret,        \* block returned by indexes (variable size), <<>> before
  ix_retN,       \* block returned by indexes<N> (fixed size), <<>> before
  \* --- apply_lambda(start, stop, omp_threads, func, qubits)
  M,             \* qubit count of the amplitude array (data has 2^M entries)
  data,          \* the amplitude array func works on
  start, stop, omp_threads, qubits,   \* the arguments
  NUM_QUBITS, END, qubits_sorted,     \* the locals of apply_lambda
  phase,         \* "call" | "seq" | "par" | "done"
  todo,          \* iterations of the omp loop not yet handed to a thread
  pc,            \* per thread: "idle" | "func" | "loaded"
  tk,            \* per thread: the loop variable k (private in the omp loop)
  inds,          \* per thread: the block computed for the iteration
  cache,         \* per thread: the amplitudes func has read
  received       \* bag of the blocks func has been invoked with

idxVars == <<ix_M, ix_qubits, ix_sorted, ix_k, ix_index0, ix_ret, ix_retN>>
alVars == <<M, data, start, stop, omp_threads, qubits, NUM_QUBITS, END,
            qubits_sorted, phase, todo, pc, tk, inds, cache, received>>

VARIABLES
  \* --- apply_reduction_lambda(start, stop, omp_threads, func [, qubits])
  rd_M,          \* qubit count of the amplitude array func reads
  rd_data,       \* the amplitude array (func only reads it)
  rd_start, rd_stop, rd_threads, rd_qubits,   \* the arguments
  rd_haslist,    \* TRUE: the overload with a qubit list; FALSE: without
  rd_END, rd_sorted,                          \* the locals END, qubits_sorted
  rd_phase,      \* "call" | "seq" | "par" | "done"
  rd_todo,       \* iterations of the omp loop not yet handed to a thread
  rd_k,          \* the loop variable of the sequential branch
  val_re, val_im,     \* the accumulators declared by the function
  priv_re, priv_im,   \* per thread: its private copies in the omp region
  rd_pc,         \* per thread: "out" | "in" | "joined"
  rd_ret         \* the returned complex value <<re, im>>, <<>> before

rdVars == <<rd_M, rd_data, rd_start, rd_stop, rd_threads, rd_qubits,
            rd_haslist, rd_END, rd_sorted, rd_phase, rd_todo, rd_k,
            val_re, val_im, priv_re, priv_im, rd_pc, rd_ret>>

VARIABLES
  \* --- State<statevec_t>: one operation after another handed to apply_op
  op,                   \* the operation: [type, name, qubits, mats]
  num_qubits,           \* qreg_.num_qubits(): qubits stored locally
  num_global_qubits_,   \* qubits of the whole (possibly chunked) register
  global_indexing,      \* qreg_.support_global_indexing()
  chunk_index,          \* qreg_.chunk_index()
  check_conditional,    \* what creg().check_conditional(op) answers
  rng_r,                \* what rng.rand(0., 1.) returns, in units of 1/KrausDen
  norms,                \* what qreg_.norm(qubits, vmat) returns, per operator
  timers,               \* the fields time_CX, time_H, ... of the object
  omp_qubit_threshold_, sample_measure_index_size_, json_chop_threshold_,
  calls,                \* calls made on the collaborators by the last apply_op
  err,                  \* "none" or the exception the last apply_op threw
  st_pc,                \* "ready" | "returned" | "threw"
  ncalls                \* number of apply_op calls the run has made

stVars == <<op, num_qubits, num_global_qubits_, global_indexing, chunk_index,
            check_conditional, rng_r, norms, timers, omp_qubit_threshold_,
            sample_measure_index_size_, json_chop_threshold_, calls, err,
            st_pc, ncalls>>

VARIABLES
  \* --- apply_reset and apply_measure on a register with its amplitudes
  rs_op,         \* "reset" | "measure"
  rs_M,          \* qubit count of the register
  rs_amps,       \* the amplitudes the container holds, up to a positive factor
  rs_qubits,     \* the qubits to reset or to measure
  rs_meas,       \* <<outcome, probability>> sampled, <<>> before
  rs_calls,      \* the calls made on the container and the classical register
  rs_pc,         \* "call" | "sampled" | "updated" | "done"
  \* --- density extraction from an amplitude vector
  dm_M,          \* qubit count of the register
  dm_vec,        \* the amplitudes, each <<re, im>>
  dm_qubits,     \* the qubits of the operation
  dm_ret,        \* the matrix returned or saved, <<>> before
  dm_pc          \* "call" | "done"

VARIABLES
  \* --- apply_lambda_MOSQ_CR(0, 2^M, omp_threads, func, ..., X_idx, Y_idx, Z_idx)
  cr_M,          \* qubit count of the amplitude array
  cr_X, cr_Y, cr_Z,   \* the masks X_idx, Y_idx, Z_idx
  cr_threads,    \* omp_threads
  cr_k,          \* the loop variable of the sequential branch
  cr_todo,       \* iterations of the omp loop not yet handed to a thread
  cr_run,        \* per thread: the call of func it is inside, <<>> if none
  cr_log,        \* the calls of func that have returned
  cr_phase,      \* "loop" | "done"
  \* --- sample_measure(qubits, shots, rng)
  sm_shots,      \* shots
  sm_threads,    \* BaseState::threads_
  sm_calls,      \* the calls made on the generator and the container
  sm_npar,       \* npar, -1 before it is set
  sm_ishot,      \* per worker i: <<ishot, iend>>
  sm_writes,     \* per entry of all_samples: the workers that wrote it
  sm_pc          \* "draw" | "convert" | "returned"

rsVars == <<rs_op, rs_M, rs_amps, rs_qubits, rs_meas, rs_calls, rs_pc>>
dmVars == <<dm_M, dm_vec, dm_qubits, dm_ret, dm_pc>>
crVars == <<cr_M, cr_X, cr_Y, cr_Z, cr_threads, cr_k, cr_todo, cr_run, cr_log,
            cr_phase>>
smVars == <<sm_shots, sm_threads, sm_calls, sm_npar, sm_ishot, sm_writes,
            sm_pc>>

vars == <<idxVars, alVars, rdVars, stVars, rsVars, dmVars, crVars, smVars>>
\* Everything but one group: what a step of that group leaves alone.
exceptIdx == <<alVars, rdVars, stVars, rsVars, dmVars, crVars, smVars>>
exceptAl == <<idxVars, rdVars, stVars, rsVars, dmVars, crVars, smVars>>
exceptRd == <<idxVars, alVars, stVars, rsVars, dmVars, crVars, smVars>>
exceptSt == <<idxVars, alVars, rdVars, rsVars, dmVars, crVars, smVars>>
exceptRs == <<idxVars, alVars, rdVars, stVars, dmVars, crVars, smVars>>
exceptDm == <<idxVars, alVars, rdVars, stVars, rsVars, crVars, smVars>>

\* ------------------------------------------------------- bit operations
BITS(i) == 2 ^ i

MASKS(i) == 2 ^ i - 1

RECURSIVE BitAnd(_, _)
BitAnd(a, b) ==
  IF a = 0 \/ b = 0 THEN 0
  ELSE (a % 2) * (b % 2) + 2 * BitAnd(a \div 2, b \div 2)

RECURSIVE BitOr(_, _)
BitOr(a, b) ==
  IF a = 0 THEN b
  ELSE IF b = 0 THEN a
  ELSE (IF a % 2 = 1 \/ b % 2 = 1 THEN 1 ELSE 0) + 2 * BitOr(a \div 2, b \div 2)

Shr(a, n) == a \div (2 ^ n)

Shl(a, n) == a * (2 ^ n)

\* std::sort of a list: ascending order, same elements.
RECURSIVE SortInsert(_, _)
SortInsert(s, x) ==
  IF s = <<>> THEN <<x>>
  ELSE IF x < Head(s) THEN <<x>> \o s
  ELSE <<Head(s)>> \o SortInsert(Tail(s), x)

RECURSIVE Sort(_)
Sort(s) == IF s = <<>> THEN <<>> ELSE SortInsert(Sort(Tail(s)), Head(s))


\* ------------------------------------------------------ bit-index engine
\* index0 with the re-shift off by one: no zero bit is inserted.
RECURSIVE index0_noinsert_loop(_, _, _)
index0_noinsert_loop(qs, j, retval) ==
  IF j > Len(qs) THEN retval
  ELSE LET lowbits == BitAnd(retval, MASKS(qs[j]))
           shifted == Shl(Shr(retval, qs[j]), qs[j])
       IN  index0_noinsert_loop(qs, j + 1, BitOr(shifted, lowbits))

index0_noinsert(qs, kk) == index0_noinsert_loop(qs, 1, kk)

\* index0 with the re-shift one too far: two zero bits are inserted.
RECURSIVE index0_wide_loop(_, _, _)
index0_wide_loop(qs, j, retval) ==
  IF j > Len(qs) THEN retval
  ELSE LET lowbits == BitAnd(retval, MASKS(qs[j]))
           shifted == Shl(Shr(retval, qs[j]), qs[j] + 2)
       IN  index0_wide_loop(qs, j + 1, BitOr(shifted, lowbits))

index0_wide(qs, kk) == index0_wide_loop(qs, 1, kk)

\* One iteration of the loop of index0 for list position j (1-based here),
\* then the remaining iterations.
RECURSIVE index0_loop(_, _, _)
index0_loop(qs, j, retval) ==
  IF j > Len(qs) THEN retval
  ELSE LET lowbits == BitAnd(retval, MASKS(qs[j]))
           shifted == Shl(Shr(retval, qs[j]), qs[j] + 1)
       IN  index0_loop(qs, j + 1, BitOr(shifted, lowbits))

index0(qs, kk) == index0_loop(qs, 1, kk)

\* Inner loop of indexes: for j in [0, n): ret[n + j] = ret[j] | bit.
RECURSIVE fill_inner(_, _, _, _)
fill_inner(ret, n, bit, j) ==
  IF j >= n THEN ret
  ELSE fill_inner([ret EXCEPT ![n + j] = BitOr(ret[j], bit)], n, bit, j + 1)

\* Outer loop of indexes over i in [0, N); qs[i + 1] is the code's qubits[i].
RECURSIVE fill_outer(_, _, _, _)
fill_outer(ret, qs, N, i) ==
  IF i >= N THEN ret
  ELSE fill_outer(fill_inner(ret, BITS(i), BITS(qs[i + 1]), 0), qs, N, i + 1)

\* indexes that lays the block out by the sorted list.
indexes_by_sorted(qs, qs_sorted, kk) ==
  LET N == Len(qs_sorted)
      fresh == [j \in 0 .. (BITS(N) - 1) |-> IF j = 0 THEN index0(qs_sorted, kk) ELSE -1]
  IN  fill_outer(fresh, qs_sorted, N, 0)

\* Variable-size indexes: the block is a new array of BITS[N] entries with
\* N = qubits_sorted.size(); entry 0 is index0, the rest is filled by doubling.
\* The array is allocated uninitialised: -1 marks an entry not yet written
\* (the doubling loops write every entry before it is read).
indexes(qs, qs_sorted, kk) ==
  LET N == Len(qs_sorted)
      fresh == [j \in 0 .. (BITS(N) - 1) |-> IF j = 0 THEN index0(qs_sorted, kk) ELSE -1]
  IN  fill_outer(fresh, qs, N, 0)

\* Fixed-size indexes<N> whose doubling step ORs the bit onto the slot itself.
indexesN_selfslot(N, qs, qs_sorted, kk) ==
  LET fresh == [j \in 0 .. (BITS(N) - 1) |-> IF j = 0 THEN index0(qs_sorted, kk) ELSE -1]
      step(ret, i) == [j \in DOMAIN ret |->
                         IF j >= BITS(i) /\ j < 2 * BITS(i)
                         THEN BitOr(ret[0], BITS(qs[i + 1])) ELSE ret[j]]
      RECURSIVE run(_, _)
      run(ret, i) == IF i >= N THEN ret ELSE run(step(ret, i), i + 1)
  IN  run(fresh, 0)

\* Fixed-size indexes<N>: N is the template parameter, the block an
\* areg_t<1 << N>.
indexesN(N, qs, qs_sorted, kk) ==
  LET fresh == [j \in 0 .. (BITS(N) - 1) |-> IF j = 0 THEN index0(qs_sorted, kk) ELSE -1]
  IN  fill_outer(fresh, qs, N, 0)

\* ------------------------------------------- calls of the engine on its own
QubitLists(m) == UNION {[1 .. n -> 0 .. (m - 1)] : n \in 0 .. m}

IsDupFree(qs) == \A i, j \in DOMAIN qs : i # j => qs[i] # qs[j]

IdxIdle ==
  /\ ix_M = 1 /\ ix_qubits = <<>> /\ ix_sorted = <<>> /\ ix_k = 0
  /\ ix_index0 = -1 /\ ix_ret = <<>> /\ ix_retN = <<>>

\* The arguments of one call: any list of qubits below M together with its
\* sorted copy and a reduced index, or the example of the header comment.
IdxInit ==
  /\ \/ /\ ix_M \in 1 .. MaxQubits
        /\ ix_qubits \in QubitLists(ix_M)
        /\ ix_k \in 0 .. (2 ^ (ix_M - Len(ix_qubits)) - 1)
     \/ /\ ix_M = 9
        /\ ix_qubits = <<1, 4>>
        /\ ix_k = 77
  /\ ix_sorted = Sort(ix_qubits)
  /\ ix_index0 = -1
  /\ ix_ret = <<>>
  /\ ix_retN = <<>>

CallIndex0 ==
  /\ ix_index0 = -1
  /\ ix_index0' = index0(ix_sorted, ix_k)
  /\ UNCHANGED <<ix_M, ix_qubits, ix_sorted, ix_k, ix_ret, ix_retN>>

CallIndexes ==
  /\ ix_ret = <<>>
  /\ ix_ret' = indexes(ix_qubits, ix_sorted, ix_k)
  /\ UNCHANGED <<ix_M, ix_qubits, ix_sorted, ix_k, ix_index0, ix_retN>>

CallIndexesN ==
  /\ ix_retN = <<>>
  /\ ix_retN' = indexesN(Len(ix_qubits), ix_qubits, ix_sorted, ix_k)
  /\ UNCHANGED <<ix_M, ix_qubits, ix_sorted, ix_k, ix_index0, ix_ret>>

\* ------------------------------------------------------------ apply_lambda
\* Thread 0 is the calling thread; an omp team is 0 .. omp_threads - 1.
Threads == 0 .. (MaxThreads - 1)

InitData(m) == [i \in 0 .. (2 ^ m - 1) |-> (i + 1) % AmpMod]

AlIdle ==
  /\ M = 1 /\ data = InitData(1) /\ start = 0 /\ stop = 0 /\ omp_threads = 0
  /\ qubits = <<>> /\ NUM_QUBITS = 0 /\ END = 0 /\ qubits_sorted = <<>>
  /\ phase = "idle" /\ todo = {}
  /\ pc = [t \in Threads |-> "idle"] /\ tk = [t \in Threads |-> 0]
  /\ inds = [t \in Threads |-> <<>>] /\ cache = [t \in Threads |-> <<>>]
  /\ received = EmptyBag

\* The state at the call: the caller passes a range [start, stop) within the
\* data size, any thread count and a duplicate-free list of qubits below M.
AlInit ==
  /\ M \in 1 .. MaxQubits
  /\ data = InitData(M)
  /\ start \in 0 .. MaxStart
  /\ stop \in 0 .. (2 ^ M)
  /\ omp_threads \in 0 .. MaxThreads
  /\ qubits \in {qs \in QubitLists(M) : IsDupFree(qs)}
  /\ (stop \div (2 ^ Len(qubits))) - start <= MaxUnits
  /\ NUM_QUBITS = 0 /\ END = 0 /\ qubits_sorted = <<>>
  /\ phase = "call" /\ todo = {}
  /\ pc = [t \in Threads |-> "idle"] /\ tk = [t \in Threads |-> 0]
  /\ inds = [t \in Threads |-> <<>>] /\ cache = [t \in Threads |-> <<>>]
  /\ received = EmptyBag

\* END with the range one unit too long.
END_value_plus1(stop_, n) == Shr(stop_, n) + 1

\* const int_t END = stop >> NUM_QUBITS;
END_value(stop_, n) == Shr(stop_, n)

\* The update function: it reads the amplitudes its block addresses ...
func_load(d, blk) == [j \in DOMAIN blk |-> d[blk[j]]]

\* ... and then writes each of them, entry 0 first, from what it has read.
RECURSIVE func_store(_, _, _, _)
func_store(d, blk, c, j) ==
  LET dim == Cardinality(DOMAIN blk) IN
  IF j >= dim THEN d
  ELSE func_store([d EXCEPT ![blk[j]] = (2 * c[(j + 1) % dim] + j + 1) % AmpMod],
                  blk, c, j + 1)

\* Prologue of apply_lambda and the choice of the branch.  Entering the omp
\* loop fixes its iterations: k = start, start + 1, ... while k < END.
Enter ==
  /\ phase = "call"
  /\ NUM_QUBITS' = Len(qubits)
  /\ END' = END_value(stop, Len(qubits))
  /\ qubits_sorted' = Sort(qubits)
  /\ IF omp_threads > 1
     THEN /\ phase' = "par"
          /\ todo' = start .. (END' - 1)
          /\ tk' = tk
     ELSE /\ phase' = "seq"
          /\ todo' = {}
          /\ tk' = [tk EXCEPT ![0] = start]
  /\ UNCHANGED <<M, data, start, stop, omp_threads, qubits, pc, inds, cache, received>>

\* Sequential branch: the loop test holds, the block of k is computed.
\* (For a std::array list the call resolves to indexes<N>, modelled by
\* indexesN; a std::vector list, modelled here, resolves to indexes.)
SeqIter ==
  /\ phase = "seq" /\ pc[0] = "idle"
  /\ tk[0] < END
  /\ inds' = [inds EXCEPT ![0] = indexes(qubits, qubits_sorted, tk[0])]
  /\ pc' = [pc EXCEPT ![0] = "func"]
  /\ UNCHANGED <<M, data, start, stop, omp_threads, qubits, NUM_QUBITS, END,
                 qubits_sorted, phase, todo, tk, cache, received>>

\* Sequential branch: the loop test fails, apply_lambda returns.
SeqExit ==
  /\ phase = "seq" /\ pc[0] = "idle"
  /\ ~(tk[0] < END)
  /\ phase' = "done"
  /\ UNCHANGED <<M, data, start, stop, omp_threads, qubits, NUM_QUBITS, END,
                 qubits_sorted, todo, pc, tk, inds, cache, received>>

\* Parallel branch: a thread of the team is handed an iteration that no
\* thread has had yet (whatever the schedule) and computes its block.
ParIter(t) ==
  /\ phase = "par" /\ t < omp_threads /\ pc[t] = "idle"
  /\ \E kk \in todo :
       /\ todo' = todo \ {kk}
       /\ tk' = [tk EXCEPT ![t] = kk]
       /\ inds' = [inds EXCEPT ![t] = indexes(qubits, qubits_sorted, kk)]
  /\ pc' = [pc EXCEPT ![t] = "func"]
  /\ UNCHANGED <<M, data, start, stop, omp_threads, qubits, NUM_QUBITS, END,
                 qubits_sorted, phase, cache, received>>

\* func(inds) is entered and reads its amplitudes.
FuncLoad(t) ==
  /\ pc[t] = "func"
  /\ cache' = [cache EXCEPT ![t] = func_load(data, inds[t])]
  /\ received' = received (+) SetToBag({inds[t]})
  /\ pc' = [pc EXCEPT ![t] = "loaded"]
  /\ UNCHANGED <<M, data, start, stop, omp_threads, qubits, NUM_QUBITS, END,
                 qubits_sorted, phase, todo, tk, inds>>

\* func(inds) writes its amplitudes and returns; the iteration ends: its
\* locals die (inds, cache and, in the omp loop, the private k are cleared),
\* the sequential loop increments k.
FuncStore(t) ==
  /\ pc[t] = "loaded"
  /\ data' = func_store(data, inds[t], cache[t], 0)
  /\ pc' = [pc EXCEPT ![t] = "idle"]
  /\ inds' = [inds EXCEPT ![t] = <<>>]
  /\ cache' = [cache EXCEPT ![t] = <<>>]
  /\ tk' = [tk EXCEPT ![t] = IF phase = "seq" THEN tk[t] + 1 ELSE 0]
  /\ UNCHANGED <<M, start, stop, omp_threads, qubits, NUM_QUBITS, END,
                 qubits_sorted, phase, todo, received>>

\* A join that does not wait for the threads still inside func.
ParJoin_nobarrier ==
  /\ phase = "par" /\ todo = {}
  /\ phase' = "done"
  /\ UNCHANGED <<M, data, start, stop, omp_threads, qubits, NUM_QUBITS, END,
                 qubits_sorted, todo, pc, tk, inds, cache, received>>

\* Parallel branch: every iteration is finished, the team joins.
ParJoin ==
  /\ phase = "par" /\ todo = {}
  /\ \A t \in Threads : pc[t] = "idle"
  /\ phase' = "done"
  /\ UNCHANGED <<M, data, start, stop, omp_threads, qubits, NUM_QUBITS, END,
                 qubits_sorted, todo, pc, tk, inds, cache, received>>

\* No call of apply_reduction_lambda is under way.
RdIdle ==
  /\ rd_M = 1 /\ rd_data = InitData(1) /\ rd_start = 0 /\ rd_stop = 0
  /\ rd_threads = 0 /\ rd_qubits = <<>> /\ rd_haslist = FALSE
  /\ rd_END = 0 /\ rd_sorted = <<>> /\ rd_phase = "idle" /\ rd_todo = {}
  /\ rd_k = 0 /\ val_re = 0 /\ val_im = 0
  /\ priv_re = [t \in Threads |-> 0] /\ priv_im = [t \in Threads |-> 0]
  /\ rd_pc = [t \in Threads |-> "out"] /\ rd_ret = <<>>

\* The fields time_* of the object that apply_op and apply_gate add to.
TimerNames ==
  {"time_CX", "time_RZ", "time_H", "time_SDGH", "time_HS", "time_S",
   "time_SDG", "time_MOSQ", "time_MOSQ_CR", "time_Fuse2", "time_Fuse3",
   "time_Fuse4", "time_Fuse5", "time_Diag", "time_taken"}

\* No State object is in use.
StIdle ==
  /\ op = [type |-> "nop", name |-> "nop", qubits |-> <<>>, mats |-> <<>>]
  /\ num_qubits = 1 /\ num_global_qubits_ = 1 /\ global_indexing = FALSE
  /\ chunk_index = 0 /\ check_conditional = TRUE /\ rng_r = 0 /\ norms = <<>>
  /\ timers = [n \in TimerNames |-> 0]
  /\ omp_qubit_threshold_ = 14 /\ sample_measure_index_size_ = 10
  /\ json_chop_threshold_ = "1e-10"
  /\ calls = <<>> /\ err = "none" /\ st_pc = "idle" /\ ncalls = 0

\* No reset and no measurement is under way.
RsIdle ==
  /\ rs_op = "none" /\ rs_M = 1 /\ rs_amps = <<>> /\ rs_qubits = <<>> /\ rs_meas = <<>>
  /\ rs_calls = <<>> /\ rs_pc = "idle"

\* No apply_lambda_MOSQ_CR is under way.
CrIdle ==
  /\ cr_M = 1 /\ cr_X = 0 /\ cr_Y = 0 /\ cr_Z = 0 /\ cr_threads = 1
  /\ cr_k = 0 /\ cr_todo = {} /\ cr_run = <<>> /\ cr_log = {}
  /\ cr_phase = "idle"

\* No sample_measure is under way.
SmIdle ==
  /\ sm_shots = 0 /\ sm_threads = 1 /\ sm_calls = <<>> /\ sm_npar = -1
  /\ sm_ishot = <<>> /\ sm_writes = <<>> /\ sm_pc = "idle"

\* No density extraction is under way.
DmIdle ==
  /\ dm_M = 1 /\ dm_vec = <<>> /\ dm_qubits = <<>> /\ dm_ret = <<>>
  /\ dm_pc = "idle"

\* ---------------------------------------------------------- specifications
Init == AlInit /\ IdxIdle /\ RdIdle /\ StIdle /\ RsIdle
    /\ DmIdle /\ CrIdle /\ SmIdle

Next ==
  \/ (Enter /\ UNCHANGED exceptAl)
  \/ (SeqIter /\ UNCHANGED exceptAl)
  \/ (SeqExit /\ UNCHANGED exceptAl)
  \/ (\E t \in Threads : ParIter(t) /\ UNCHANGED exceptAl)
  \/ (\E t \in Threads : FuncLoad(t) /\ UNCHANGED exceptAl)
  \/ (\E t \in Threads : FuncStore(t) /\ UNCHANGED exceptAl)
  \/ (ParJoin /\ UNCHANGED exceptAl)

Spec == Init /\ [][Next]_vars

InitIdx == IdxInit /\ AlIdle /\ RdIdle /\ StIdle /\ RsIdle
    /\ DmIdle /\ CrIdle /\ SmIdle

NextIdx ==
  \/ (CallIndex0 /\ UNCHANGED exceptIdx)
  \/ (CallIndexes /\ UNCHANGED exceptIdx)
  \/ (CallIndexesN /\ UNCHANGED exceptIdx)

SpecIdx == InitIdx /\ [][NextIdx]_vars

\* ------------------------------------------------- vocabulary of the claims
Range(f) == {f[j] : j \in DOMAIN f}

BitIsSet(x, b) == (x \div (2 ^ b)) % 2 = 1

\* The mask with exactly the bits BITS[q], q in S, set.
RECURSIVE MaskOf(_)
MaskOf(S) ==
  IF S = {} THEN 0
  ELSE LET q == CHOOSE x \in S : TRUE IN (2 ^ q) + MaskOf(S \ {q})

\* x with the bit positions in Q removed, the remaining bits closed up.
RECURSIVE Squeeze(_, _, _)
Squeeze(x, pos, Q) ==
  IF x = 0 THEN 0
  ELSE IF pos \in Q THEN Squeeze(x \div 2, pos + 1, Q)
  ELSE (x % 2) + 2 * Squeeze(x \div 2, pos + 1, Q)

\* The reduced indices of a register of m qubits for a list of n qubits.
Reduced(m, n) == 0 .. (2 ^ (m - n) - 1)

InFunc(t) == pc[t] \in {"func", "loaded"}

\* ------------------------------------------------------------------ claims
\* C1: for a duplicate-free qubit list below M the index blocks of two
\* distinct reduced indices share no full index, and so two threads that are
\* inside func at the same time never hold a common full index.
C1_BlocksDisjoint ==
  /\ (phase = "done" /\ IsDupFree(qubits)) =>
       \A k1, k2 \in Reduced(M, Len(qubits)) :
         k1 # k2 => Range(indexes(qubits, Sort(qubits), k1))
                      \cap Range(indexes(qubits, Sort(qubits), k2)) = {}
  /\ \A t1, t2 \in Threads :
       (t1 # t2 /\ InFunc(t1) /\ InFunc(t2)) =>
         Range(inds[t1]) \cap Range(inds[t2]) = {}

C1_Witness ==
  /\ omp_threads > 1 /\ Len(qubits) >= 1
  /\ pc[0] = "loaded" /\ pc[1] = "loaded"

\* C2: for a duplicate-free list the 2^|Q| entries of the block are pairwise
\* distinct and each is index0(sort(Q), k) OR-ed with the bits of a subset of Q.
C2_EntriesDistinct ==
  (ix_ret # <<>> /\ IsDupFree(ix_qubits)) =>
    LET base == index0(Sort(ix_qubits), ix_k) IN
    /\ DOMAIN ix_ret = 0 .. (2 ^ Len(ix_qubits) - 1)
    /\ \A i, j \in DOMAIN ix_ret : i # j => ix_ret[i] # ix_ret[j]
    /\ \A j \in DOMAIN ix_ret :
         \E S \in SUBSET Range(ix_qubits) : ix_ret[j] = BitOr(base, MaskOf(S))
    /\ \A i, j \in DOMAIN ix_ret : \A b \in 0 .. (ix_M - 1) :
         (BitIsSet(ix_ret[i], b) # BitIsSet(ix_ret[j], b)) => b \in Range(ix_qubits)

C2_Witness ==
  /\ ix_ret # <<>> /\ IsDupFree(ix_qubits) /\ Len(ix_qubits) = 2 /\ ix_k > 0
  /\ ix_qubits # ix_sorted

\* C3: for a duplicate-free sorted list below M every full index in [0, 2^M)
\* is index0(Q_sorted, k) | pattern for exactly one pair (k, pattern); the
\* blocks over all k partition [0, 2^M).
C3_Partition ==
  (ix_index0 # -1 /\ IsDupFree(ix_sorted)) =>
    LET Q == Range(ix_sorted)
        N == Len(ix_sorted)
        Pairs == Reduced(ix_M, N) \X (SUBSET Q)
        Image == {BitOr(index0(ix_sorted, p[1]), MaskOf(p[2])) : p \in Pairs}
        Blocks == {Range(indexes(ix_sorted, ix_sorted, kk)) : kk \in Reduced(ix_M, N)}
    IN  /\ Image = 0 .. (2 ^ ix_M - 1)
        /\ Cardinality(Image) = Cardinality(Pairs)
        /\ UNION Blocks = 0 .. (2 ^ ix_M - 1)
        /\ Cardinality(Blocks) = 2 ^ (ix_M - N)
        /\ \A b \in Blocks : Cardinality(b) = 2 ^ N

C3_Witness ==
  /\ ix_index0 # -1 /\ IsDupFree(ix_sorted)
  /\ Len(ix_sorted) = 2 /\ ix_M = 3

\* C4: the block is laid out by the unsorted list: bit qubits[i] of block[j]
\* is set exactly when bit i of j is set, block[0] is index0; a two-qubit
\* list given in reverse order has entries 1 and 2 swapped.
C4_LayoutByUnsorted ==
  (ix_ret # <<>> /\ IsDupFree(ix_qubits)) =>
    /\ ix_ret[0] = index0(Sort(ix_qubits), ix_k)
    /\ \A j \in DOMAIN ix_ret : \A i \in 0 .. (Len(ix_qubits) - 1) :
         BitIsSet(ix_ret[j], ix_qubits[i + 1]) <=> BitIsSet(j, i)
    /\ Len(ix_qubits) = 2 =>
         LET rev == indexes(<<ix_qubits[2], ix_qubits[1]>>, ix_sorted, ix_k)
         IN  /\ rev[0] = ix_ret[0] /\ rev[3] = ix_ret[3]
             /\ rev[1] = ix_ret[2] /\ rev[2] = ix_ret[1]

C4_Witness ==
  /\ ix_ret # <<>> /\ ix_qubits = <<2, 0>> /\ ix_k = 1
  /\ ix_ret[1] = 6 /\ ix_ret[2] = 3

\* C5: for a strictly ascending list index0(Q_sorted, k) has a 0 bit at every
\* position of the list, and removing those positions gives back k.
C5_Index0Inverse ==
  (ix_index0 # -1 /\ IsDupFree(ix_sorted)) =>
    /\ \A q \in Range(ix_sorted) : ~BitIsSet(ix_index0, q)
    /\ Squeeze(ix_index0, 0, Range(ix_sorted)) = ix_k

C5_Witness ==
  /\ ix_index0 # -1 /\ IsDupFree(ix_sorted)
  /\ Len(ix_sorted) = 2 /\ ix_k = 1 /\ ix_index0 > ix_k

\* C6: for a duplicate-free list of size N below M and k in [0, 2^(M-N))
\* every entry of the block is in [0, 2^M).
C6_InRange ==
  (ix_ret # <<>> /\ IsDupFree(ix_qubits)
     /\ (\A q \in Range(ix_qubits) : q < ix_M)
     /\ ix_k \in Reduced(ix_M, Len(ix_qubits))) =>
    \A j \in DOMAIN ix_ret : ix_ret[j] >= 0 /\ ix_ret[j] < 2 ^ ix_M

C6_Witness ==
  /\ ix_ret # <<>> /\ IsDupFree(ix_qubits) /\ Len(ix_qubits) >= 1
  /\ ix_k = 2 ^ (ix_M - Len(ix_qubits)) - 1
  /\ \E j \in DOMAIN ix_ret : ix_ret[j] = 2 ^ ix_M - 1

\* C7: the fixed-size indexes<N> and the variable-size indexes return the
\* same 2^N indices in the same order, for every list (duplicates included).
C7_FixedEqualsVariable ==
  (ix_ret # <<>> /\ ix_retN # <<>>) =>
    /\ DOMAIN ix_retN = 0 .. (2 ^ Len(ix_qubits) - 1)
    /\ ix_retN = ix_ret

C7_Witness ==
  /\ ix_ret # <<>> /\ ix_retN # <<>>
  /\ Len(ix_qubits) = 3 /\ ix_qubits # ix_sorted

\* C8: for qubits = qubits_sorted = [1,4] and k = 77, index0 returns 297 and
\* indexes returns the block [297, 299, 313, 315].
C8_Example ==
  (ix_qubits = <<1, 4>> /\ ix_sorted = <<1, 4>> /\ ix_k = 77) =>
    /\ ix_index0 # -1 => ix_index0 = 297
    /\ ix_ret # <<>> => ix_ret = (0 :> 297 @@ 1 :> 299 @@ 2 :> 313 @@ 3 :> 315)

C8_Witness ==
  /\ ix_qubits = <<1, 4>> /\ ix_sorted = <<1, 4>> /\ ix_k = 77
  /\ ix_index0 # -1 /\ ix_ret # <<>>

\* The bag of the blocks of the reduced indices lo .. hi of the call.
RECURSIVE BlocksOf(_, _)
BlocksOf(lo, hi) ==
  IF lo > hi THEN EmptyBag
  ELSE SetToBag({indexes(qubits, Sort(qubits), lo)}) (+) BlocksOf(lo + 1, hi)

\* C9: apply_lambda invokes func exactly once for each k in
\* [start, stop >> |qubits|) and for no other k, with the block of that k;
\* with omp_threads <= 1 only the calling thread runs and the invocations made
\* so far are always those of a prefix start, start+1, ... of the range.
C9_OncePerIndex ==
  phase \in {"seq", "par", "done"} =>
    LET last == (stop \div (2 ^ Len(qubits))) - 1 IN
    /\ \A t \in Threads : InFunc(t) =>
         /\ tk[t] \in start .. last
         /\ inds[t] = indexes(qubits, Sort(qubits), tk[t])
    /\ received \sqsubseteq BlocksOf(start, last)
    /\ phase = "done" => received = BlocksOf(start, last)
    /\ omp_threads <= 1 =>
         /\ \A t \in Threads : t # 0 => pc[t] = "idle"
         /\ received = BlocksOf(start, IF pc[0] = "loaded" THEN tk[0] ELSE tk[0] - 1)

C9_Witness ==
  /\ phase = "done" /\ omp_threads = 0 /\ start = 1
  /\ BagCardinality(received) = 3

\* The array a strictly sequential traversal of lo .. hi - 1 leaves.
RECURSIVE SeqResult(_, _, _)
SeqResult(d, lo, hi) ==
  IF lo >= hi THEN d
  ELSE LET blk == indexes(qubits, Sort(qubits), lo)
       IN  SeqResult(func_store(d, blk, func_load(d, blk), 0), lo + 1, hi)

\* C10: for an update function that reads and writes only the amplitudes of
\* its block, the array after apply_lambda is, for every thread count and
\* every interleaving, the array the sequential traversal produces.
C10_ParallelEqualsSequential ==
  phase = "done" =>
    data = SeqResult(InitData(M), start, stop \div (2 ^ Len(qubits)))

C10_Witness ==
  /\ phase = "done" /\ omp_threads > 1
  /\ BagCardinality(received) >= 3 /\ Len(qubits) >= 1
  /\ data # InitData(M)

\* ================================================== apply_reduction_lambda
\* The state at the call.  func only reads the amplitudes, so the array is
\* the same at every step.
RdInit ==
  /\ rd_M \in 1 .. MaxQubits
  /\ rd_data = InitData(rd_M)
  /\ rd_start \in 0 .. MaxStart
  /\ rd_stop \in 0 .. (2 ^ rd_M)
  /\ rd_threads \in 0 .. MaxThreads
  /\ rd_haslist \in BOOLEAN
  /\ rd_qubits \in {qs \in QubitLists(rd_M) : IsDupFree(qs)}
  /\ ~rd_haslist => rd_qubits = <<>>
  /\ (rd_stop \div (2 ^ Len(rd_qubits))) - rd_start <= MaxUnits
  /\ rd_END = 0 /\ rd_sorted = <<>> /\ rd_phase = "call" /\ rd_todo = {}
  /\ rd_k = 0 /\ val_re = 0 /\ val_im = 0
  /\ priv_re = [t \in Threads |-> 0] /\ priv_im = [t \in Threads |-> 0]
  /\ rd_pc = [t \in Threads |-> "out"] /\ rd_ret = <<>>

\* const int_t END = stop >> NUM_QUBITS;  (without a list: k < int_t(stop))
red_END(haslist, stop_, n) == IF haslist THEN Shr(stop_, n) ELSE stop_

\* What func is handed for iteration k: the block indexes(qubits,
\* qubits_sorted, k), or k itself in the overload without a qubit list.
red_arg(haslist, qs, qs_sorted, kk) ==
  IF haslist THEN indexes(qs, qs_sorted, kk) ELSE [j \in {0} |-> kk]

\* The amounts func adds to the accumulators it is handed: to the real part
\* a weighted sum of the amplitudes it addresses, to the imaginary part one
\* more than the first of them (so every invocation leaves a trace).
RECURSIVE func_re(_, _, _)
func_re(d, arg, j) ==
  IF j >= Cardinality(DOMAIN arg) THEN 0
  ELSE (j + 1) * d[arg[j]] + func_re(d, arg, j + 1)

func_im(d, arg) == 1 + d[arg[0]]

\* A combiner that keeps the last private copy only.
reduce_combine_last(orig, private) == private

\* reduction(+ : val_re, val_im): a private copy is added to the original.
reduce_combine(orig, private) == orig + private

\* Prologue and the choice of the branch.  The accumulators start at 0.; in
\* the omp region every thread of the team gets private copies, initialised
\* to the identity of +.
RdEnter ==
  /\ rd_phase = "call"
  /\ rd_END' = red_END(rd_haslist, rd_stop, Len(rd_qubits))
  /\ rd_sorted' = IF rd_haslist THEN Sort(rd_qubits) ELSE <<>>
  /\ val_re' = 0 /\ val_im' = 0
  /\ IF rd_threads > 1
     THEN /\ rd_phase' = "par"
          /\ rd_todo' = rd_start .. (rd_END' - 1)
          /\ rd_pc' = [t \in Threads |-> IF t < rd_threads THEN "in" ELSE "out"]
          /\ priv_re' = [t \in Threads |-> 0]
          /\ priv_im' = [t \in Threads |-> 0]
          /\ rd_k' = rd_k
     ELSE /\ rd_phase' = "seq"
          /\ rd_k' = rd_start
          /\ UNCHANGED <<rd_todo, rd_pc, priv_re, priv_im>>
  /\ UNCHANGED <<rd_M, rd_data, rd_start, rd_stop, rd_threads, rd_qubits,
                 rd_haslist, rd_ret>>

\* Sequential branch: one iteration, func adds to val_re and val_im.
RdSeqIter ==
  /\ rd_phase = "seq" /\ rd_k < rd_END
  /\ LET arg == red_arg(rd_haslist, rd_qubits, rd_sorted, rd_k)
     IN  /\ val_re' = val_re + func_re(rd_data, arg, 0)
         /\ val_im' = val_im + func_im(rd_data, arg)
  /\ rd_k' = rd_k + 1
  /\ UNCHANGED <<rd_M, rd_data, rd_start, rd_stop, rd_threads, rd_qubits,
                 rd_haslist, rd_END, rd_sorted, rd_phase, rd_todo,
                 priv_re, priv_im, rd_pc, rd_ret>>

\* Sequential branch: the loop test fails, the value is returned.
RdSeqExit ==
  /\ rd_phase = "seq" /\ ~(rd_k < rd_END)
  /\ rd_ret' = <<val_re, val_im>>
  /\ rd_phase' = "done"
  /\ UNCHANGED <<rd_M, rd_data, rd_start, rd_stop, rd_threads, rd_qubits,
                 rd_haslist, rd_END, rd_sorted, rd_todo, rd_k, val_re, val_im,
                 priv_re, priv_im, rd_pc>>

\* Parallel branch: a thread of the team is handed an iteration no thread
\* has had yet; func adds to the thread's private copies.
RdParIter(t) ==
  /\ rd_phase = "par" /\ rd_pc[t] = "in"
  /\ \E kk \in rd_todo :
       LET arg == red_arg(rd_haslist, rd_qubits, rd_sorted, kk)
       IN  /\ rd_todo' = rd_todo \ {kk}
           /\ priv_re' = [priv_re EXCEPT ![t] = @ + func_re(rd_data, arg, 0)]
           /\ priv_im' = [priv_im EXCEPT ![t] = @ + func_im(rd_data, arg)]
  /\ UNCHANGED <<rd_M, rd_data, rd_start, rd_stop, rd_threads, rd_qubits,
                 rd_haslist, rd_END, rd_sorted, rd_phase, rd_k, val_re, val_im,
                 rd_pc, rd_ret>>

\* Parallel branch: a thread that has no iteration left reaches the end of
\* the region, where its private copies are combined into the originals
\* (the runtime makes each combination atomic; their order is not fixed).
RdCombine(t) ==
  /\ rd_phase = "par" /\ rd_pc[t] = "in" /\ rd_todo = {}
  /\ val_re' = reduce_combine(val_re, priv_re[t])
  /\ val_im' = reduce_combine(val_im, priv_im[t])
  /\ rd_pc' = [rd_pc EXCEPT ![t] = "joined"]
  /\ UNCHANGED <<rd_M, rd_data, rd_start, rd_stop, rd_threads, rd_qubits,
                 rd_haslist, rd_END, rd_sorted, rd_phase, rd_todo, rd_k,
                 priv_re, priv_im, rd_ret>>

\* Parallel branch: the whole team has joined, the value is returned.
RdParExit ==
  /\ rd_phase = "par"
  /\ \A t \in Threads : rd_pc[t] # "in"
  /\ rd_ret' = <<val_re, val_im>>
  /\ rd_phase' = "done"
  /\ UNCHANGED <<rd_M, rd_data, rd_start, rd_stop, rd_threads, rd_qubits,
                 rd_haslist, rd_END, rd_sorted, rd_todo, rd_k, val_re, val_im,
                 priv_re, priv_im, rd_pc>>

InitRed == RdInit /\ IdxIdle /\ AlIdle /\ StIdle /\ RsIdle
    /\ DmIdle /\ CrIdle /\ SmIdle

NextRed ==
  \/ (RdEnter /\ UNCHANGED exceptRd)
  \/ (RdSeqIter /\ UNCHANGED exceptRd)
  \/ (RdSeqExit /\ UNCHANGED exceptRd)
  \/ (\E t \in Threads : RdParIter(t) /\ UNCHANGED exceptRd)
  \/ (\E t \in Threads : RdCombine(t) /\ UNCHANGED exceptRd)
  \/ (RdParExit /\ UNCHANGED exceptRd)

SpecRed == InitRed /\ [][NextRed]_vars

\* The traversed range of the call, from its arguments.
RdLast == IF rd_haslist THEN rd_stop \div (2 ^ Len(rd_qubits)) ELSE rd_stop

\* What func is handed for k, from the arguments.
RdArg(kk) ==
  IF rd_haslist THEN indexes(rd_qubits, Sort(rd_qubits), kk)
  ELSE [j \in {0} |-> kk]

\* The sums over lo .. hi - 1 of the amounts func adds.
RECURSIVE SumRe(_, _)
SumRe(lo, hi) ==
  IF lo >= hi THEN 0 ELSE func_re(rd_data, RdArg(lo), 0) + SumRe(lo + 1, hi)

RECURSIVE SumIm(_, _)
SumIm(lo, hi) ==
  IF lo >= hi THEN 0 ELSE func_im(rd_data, RdArg(lo)) + SumIm(lo + 1, hi)

\* C11: the value apply_reduction_lambda returns has as real and imaginary
\* parts the sums, over every k of the traversed range, of the amounts func
\* added; with exact (integer) amounts it is therefore the same for every
\* thread count and interleaving: no contribution is lost or counted twice.
C11_ReductionIsSum ==
  rd_phase = "done" =>
    rd_ret = <<SumRe(rd_start, RdLast), SumIm(rd_start, RdLast)>>

C11_Witness ==
  /\ rd_phase = "done" /\ rd_threads > 1 /\ rd_haslist
  /\ Len(rd_qubits) >= 1 /\ RdLast - rd_start >= 3
  /\ \A t \in Threads : t < rd_threads => priv_im[t] > 0

\* ============================================ termination of the traversals
\* A call of either traversal primitive, run by threads that are scheduled
\* again and again: a thread that can take a step is not left waiting for
\* ever, and func returns once it is entered (FuncStore, RdParIter).
InitCalls == Init \/ InitRed

NextCalls == Next \/ NextRed

SpecCalls == InitCalls /\ [][NextCalls]_vars /\ WF_vars(NextCalls)

\* The call under way has returned.
Returned == phase = "done" \/ rd_phase = "done"

\* Nothing of the call's range is left undone and no thread is at work.
AllUnitsComplete ==
  /\ phase = "done" =>
       /\ todo = {}
       /\ \A t \in Threads : pc[t] = "idle"
       /\ received = BlocksOf(start, (stop \div (2 ^ Len(qubits))) - 1)
  /\ rd_phase = "done" =>
       /\ rd_todo = {}
       /\ \A t \in Threads : rd_pc[t] # "in"
       /\ rd_threads <= 1 => rd_k >= RdLast
       /\ rd_ret[2] = SumIm(rd_start, RdLast)

\* C12: with a terminating func every call of apply_lambda and of
\* apply_reduction_lambda eventually returns, and when it has returned every
\* unit of its range is complete: no thread is still inside func, no
\* iteration was skipped, whatever the thread count.
C12_CallsReturnComplete == <>Returned /\ [](Returned => AllUnitsComplete)

C12_Witness ==
  /\ phase = "done" /\ omp_threads = 2 /\ start = 0
  /\ BagCardinality(received) = 4 /\ todo = {}

\* ============================================ State<statevec_t>: apply_op
\* const stringmap_t<Gates> gateset_: gate name -> Gates enumerator.
gateset_ ==
  "delay" :> "id" @@ "id" :> "id" @@ "x" :> "mcx" @@ "y" :> "mcy" @@
  "z" :> "mcz" @@ "s" :> "s" @@ "sdg" :> "sdg" @@ "h" :> "h" @@
  "t" :> "t" @@ "tdg" :> "tdg" @@ "p" :> "mcp" @@ "sx" :> "mcsx" @@
  "sxdg" :> "mcsxdg" @@ "H+S" :> "hs" @@ "SDG+H" :> "sdgh" @@
  "r" :> "mcr" @@ "rx" :> "mcrx" @@ "ry" :> "mcry" @@ "rz" :> "mcrz" @@
  "u1" :> "mcp" @@ "u2" :> "mcu2" @@ "u3" :> "mcu3" @@ "u" :> "mcu3" @@
  "U" :> "mcu3" @@ "CX" :> "mcx" @@ "cx" :> "mcx" @@ "cy" :> "mcy" @@
  "cz" :> "mcz" @@ "cp" :> "mcp" @@ "cu1" :> "mcp" @@ "cu2" :> "mcu2" @@
  "cu3" :> "mcu3" @@ "cu" :> "mcu" @@ "swap" :> "mcswap" @@
  "rxx" :> "rxx" @@ "ryy" :> "ryy" @@ "rzz" :> "rzz" @@ "rzx" :> "rzx" @@
  "csx" :> "mcsx" @@ "csxdg" :> "mcsxdg" @@ "ecr" :> "ecr" @@
  "crx" :> "mcrx" @@ "cry" :> "mcry" @@ "crz" :> "mcrz" @@
  "ccx" :> "mcx" @@ "ccz" :> "mcz" @@ "cswap" :> "mcswap" @@
  "mcx" :> "mcx" @@ "mcy" :> "mcy" @@ "mcz" :> "mcz" @@ "mcr" :> "mcr" @@
  "mcrx" :> "mcrx" @@ "mcry" :> "mcry" @@ "mcrz" :> "mcrz" @@
  "mcphase" :> "mcp" @@ "mcp" :> "mcp" @@ "mcu1" :> "mcp" @@
  "mcu2" :> "mcu2" @@ "mcu3" :> "mcu3" @@ "mcu" :> "mcu" @@
  "mcswap" :> "mcswap" @@ "mcsx" :> "mcsx" @@ "mcsxdg" :> "mcsxdg" @@
  "pauli" :> "pauli" @@ "MOSQ" :> "mosq" @@ "MOSQ_CR" :> "mosq_cr" @@
  "mcx_gray" :> "mcx"

\* Names no entry of gateset_ has.
UnknownNames == {"foo", "cfoo", "mcfoo"}

\* op.name[0] == 'c'
StartsWith_c(name) ==
  name \in {"ccx", "ccz", "cp", "crx", "cry", "crz", "cswap", "csx",
           "csxdg", "cu", "cu1", "cu2", "cu3", "cx", "cy", "cz", "cfoo"}

\* op.name.find("mc") == 0
StartsWith_mc(name) ==
  name \in {"mcp", "mcphase", "mcr", "mcrx", "mcry", "mcrz", "mcswap",
           "mcsx", "mcsxdg", "mcu", "mcu1", "mcu2", "mcu3", "mcx",
           "mcx_gray", "mcy", "mcz", "mcfoo"}

\* The name without its control prefix ("c", "mc"; "mcphase" becomes "p").
strip_ctrl ==
  "ccx" :> "cx" @@ "ccz" :> "cz" @@ "cp" :> "p" @@ "crx" :> "rx" @@
  "cry" :> "ry" @@ "crz" :> "rz" @@ "cswap" :> "swap" @@ "csx" :> "sx" @@
  "csxdg" :> "sxdg" @@ "cu" :> "u" @@ "cu1" :> "u1" @@ "cu2" :> "u2" @@
  "cu3" :> "u3" @@ "cx" :> "x" @@ "cy" :> "y" @@ "cz" :> "z" @@
  "cfoo" :> "foo" @@ "mcp" :> "p" @@ "mcphase" :> "p" @@ "mcr" :> "r" @@
  "mcrx" :> "rx" @@ "mcry" :> "ry" @@ "mcrz" :> "rz" @@
  "mcswap" :> "swap" @@ "mcsx" :> "sx" @@ "mcsxdg" :> "sxdg" @@
  "mcu" :> "u" @@ "mcu1" :> "u1" @@ "mcu2" :> "u2" @@ "mcu3" :> "u3" @@
  "mcx" :> "x" @@ "mcx_gray" :> "x_gray" @@ "mcy" :> "y" @@ "mcz" :> "z" @@
  "mcfoo" :> "foo"

\* Chunk::get_inout_ctrl_qubits: the qubits of the operation that are stored
\* locally, and those that select a chunk.
qubits_inside(o) == SelectSeq(o.qubits, LAMBDA q : q < num_qubits)

qubits_outside(o) == SelectSeq(o.qubits, LAMBDA q : q >= num_qubits)

\* Chunk::correct_gate_op_in_chunk: the operation on its local qubits, under
\* the name of the gate that is left once the outside controls are met.
correct_gate_op_in_chunk(o, qubits_in) ==
  [o EXCEPT !.qubits = qubits_in,
            !.name = IF o.name = "ccx"
                     THEN (IF Len(qubits_in) = 1 THEN "x" ELSE "cx")
                     ELSE IF Len(qubits_in) = 1 THEN strip_ctrl[o.name]
                     ELSE o.name]

\* mask |= (1ull << (qubits_out[i] - num_qubits)) over qubits_out.
RECURSIVE chunk_mask(_, _)
chunk_mask(qubits_out, i) ==
  IF i > Len(qubits_out) THEN 0
  ELSE BitOr(Shl(1, qubits_out[i] - num_qubits), chunk_mask(qubits_out, i + 1))
\* A call on a collaborator (the amplitude container qreg_, the classical
\* register, the result sink), as the State layer makes it.
Call(fn, qs, arg) == [fn |-> fn, qubits |-> qs, arg |-> arg]

\* What a handler has done when it is left: the exception it threw ("none"
\* if it returned), the calls it made, the time_* field it added to.
Outcome(e, cs, timer) == [err |-> e, calls |-> cs, timer |-> timer]

\* num_global_qubits_ > qreg_.num_qubits() && !support_global_indexing()
multi_chunk == num_global_qubits_ > num_qubits /\ ~global_indexing

\* State::apply_diagonal_matrix(qubits, diag)
apply_diagonal_matrix(qs, diag) ==
  IF multi_chunk
  THEN <<Call("Chunk::block_diagonal_matrix", qs, diag),
         Call("qreg_.apply_diagonal_matrix", qs, diag)>>
  ELSE <<Call("qreg_.apply_diagonal_matrix", qs, diag)>>

\* The container method a case of the switch of apply_gate calls.
gate_method ==
  "mcx" :> "qreg_.apply_mcx" @@ "mcy" :> "qreg_.apply_mcy" @@
  "mcz" :> "qreg_.apply_mcphase" @@ "mcr" :> "qreg_.apply_mcu" @@
  "mcrx" :> "qreg_.apply_rotation" @@ "mcry" :> "qreg_.apply_rotation" @@
  "mcrz" :> "qreg_.apply_rotation" @@ "rxx" :> "qreg_.apply_rotation" @@
  "ryy" :> "qreg_.apply_rotation" @@ "rzz" :> "qreg_.apply_rotation" @@
  "rzx" :> "qreg_.apply_rotation" @@ "ecr" :> "qreg_.apply_matrix" @@
  "h" :> "qreg_.apply_mcu" @@ "sdgh" :> "qreg_.apply_mcu" @@
  "hs" :> "qreg_.apply_mcu" @@ "mcswap" :> "qreg_.apply_mcswap" @@
  "mcu3" :> "qreg_.apply_mcu" @@ "mcu" :> "qreg_.apply_mcu" @@
  "mcu2" :> "qreg_.apply_mcu" @@ "mcp" :> "qreg_.apply_mcphase" @@
  "mcsx" :> "qreg_.apply_mcu" @@ "mcsxdg" :> "qreg_.apply_mcu" @@
  "pauli" :> "qreg_.apply_pauli" @@ "mosq" :> "qreg_.apply_MOSQ" @@
  "mosq_cr" :> "qreg_.apply_MOSQ_CR"

\* The field a case of the switch of apply_gate adds the elapsed time to.
gate_timer ==
  "mcx" :> "time_CX" @@ "mcrz" :> "time_RZ" @@ "h" :> "time_H" @@
  "sdgh" :> "time_SDGH" @@ "hs" :> "time_HS" @@ "s" :> "time_S" @@
  "sdg" :> "time_SDG" @@ "mosq" :> "time_MOSQ" @@ "mosq_cr" :> "time_MOSQ_CR"

\* enum class Gates
Gates ==
  {"id", "h", "s", "sdg", "t", "tdg", "rxx", "ryy", "rzz", "rzx", "mcx",
   "mcy", "mcz", "mcr", "mcrx", "mcry", "mcrz", "mcp", "mcu2", "mcu3", "mcu",
   "mcswap", "mcsx", "mcsxdg", "pauli", "ecr", "hs", "sdgh", "mosq",
   "mosq_cr"}

\* The gate names of StateOpSet.
StateOpSet_gates ==
  {"u1", "u2", "u3", "u", "U", "CX", "cx", "cz", "cy", "cp", "cu1", "cu2",
   "cu3", "swap", "id", "p", "x", "y", "z", "h", "s", "sdg", "t", "tdg", "r",
   "rx", "ry", "rz", "rxx", "ryy", "rzz", "rzx", "ccx", "ccz", "cswap",
   "mcx", "mcy", "mcz", "mcu1", "mcu2", "mcu3", "mcswap", "mcr", "mcrx",
   "mcry", "mcrz", "sx", "sxdg", "csx", "mcsx", "csxdg", "mcsxdg", "delay",
   "pauli", "mcx_gray", "cu", "mcu", "mcp", "ecr", "mcphase", "crx", "cry",
   "crz", "H+S", "SDG+H", "MOSQ", "MOSQ_CR"}

\* switch (it->second) of apply_gate; an enumerator without a case goes to
\* the default branch, which throws.
gate_switch(o, g) ==
  IF g = "id" THEN Outcome("none", <<>>, "none")
  ELSE IF g \in {"s", "sdg", "t", "tdg"}
  THEN Outcome("none", apply_diagonal_matrix(<<o.qubits[1]>>, g),
               IF g \in DOMAIN gate_timer THEN gate_timer[g] ELSE "none")
  ELSE IF g \in DOMAIN gate_method
  THEN Outcome("none", <<Call(gate_method[g], o.qubits, g)>>,
               IF g \in DOMAIN gate_timer THEN gate_timer[g] ELSE "none")
  ELSE Outcome("invalid gate instruction (default)", <<>>, "none")

\* A lookup that misses the upper-case alias of cx.
gate_lookup_lowercase(o) ==
  IF o.name \notin DOMAIN gateset_ \/ o.name = "CX"
  THEN Outcome("invalid gate instruction", <<>>, "none")
  ELSE gate_switch(o, gateset_[o.name])

\* auto it = gateset_.find(op.name); if (it == gateset_.end()) throw ...
gate_lookup(o) ==
  IF o.name \notin DOMAIN gateset_
  THEN Outcome("invalid gate instruction", <<>>, "none")
  ELSE gate_switch(o, gateset_[o.name])

\* State::apply_gate(op).  In a chunk of a distributed register an operation
\* with controls outside the chunk is applied, rewritten, only if the chunk
\* index has all those control bits set, and the function returns.
RECURSIVE apply_gate(_)
apply_gate(o) ==
  LET ctl == StartsWith_c(o.name) \/ StartsWith_mc(o.name)
      qubits_in == IF ctl THEN qubits_inside(o) ELSE <<>>
      qubits_out == IF ctl THEN qubits_outside(o) ELSE <<>>
      mask == chunk_mask(qubits_out, 1)
  IN  IF multi_chunk /\ Len(qubits_out) > 0
      THEN IF BitAnd(chunk_index, mask) = mask
           THEN apply_gate(correct_gate_op_in_chunk(o, qubits_in))
           ELSE Outcome("none", <<>>, "none")
      ELSE gate_lookup(o)

\* ------------------------------------------------- matrices and vectors
\* A dense matrix (cmatrix_t) is the sequence of its rows.  A complex vector
\* (cvector_t) is [v, scale]: the entries v, each times a positive real that
\* is 1 (scale <<"one">>) or 1/sqrt(p) (scale <<"rsqrt", p>>) for a
\* probability p the container has returned.  Probabilities of Kraus
\* operators and the deviate r are in units of 1/KrausDen.
KrausDen == 2

mat_size(m) == IF Len(m) = 0 THEN 0 ELSE Len(m) * Len(m[1])

\* Utils::is_diagonal(mat, .0): square, and zero off the diagonal.
is_diagonal(m) ==
  /\ \A i \in DOMAIN m : Len(m[i]) = Len(m)
  /\ \A i, j \in DOMAIN m : i # j => m[i][j] = 0

\* Utils::matrix_diagonal(mat)
matrix_diagonal(m) == [v |-> [i \in DOMAIN m |-> m[i][i]], scale |-> <<"one">>]

\* Utils::vectorize_matrix(mat): the columns of mat one after another.
vectorize_matrix(m) ==
  LET dim == Len(m)
  IN  [v |-> [t \in 1 .. (dim * dim) |->
                m[((t - 1) % dim) + 1][((t - 1) \div dim) + 1]],
       scale |-> <<"one">>]

\* Utils::scalar_multiply_inplace(vmat, 1 / std::sqrt(p))
rescale(vmat, p) == [vmat EXCEPT !.scale = <<"rsqrt", p>>]

\* State::apply_matrix(const Operations::Op &op)
apply_matrix_op(o) ==
  IF o.qubits # <<>> /\ mat_size(o.mats[1]) > 0
  THEN IF is_diagonal(o.mats[1])
       THEN apply_diagonal_matrix(o.qubits, matrix_diagonal(o.mats[1]))
       ELSE <<Call("qreg_.apply_matrix", o.qubits, vectorize_matrix(o.mats[1]))>>
  ELSE <<>>

\* State::apply_matrix(const reg_t &qubits, const cvector_t &vmat)
apply_matrix(qs, vmat) ==
  IF Len(vmat.v) = Shl(1, Len(qs))
  THEN apply_diagonal_matrix(qs, vmat)
  ELSE <<Call("qreg_.apply_matrix", qs, vmat)>>

\* ------------------------------------------------------------ apply_kraus
\* The loop with an applied operator that does not end it.
RECURSIVE kraus_loop_nobreak(_, _, _, _, _, _)
kraus_loop_nobreak(qs, kmats, r, ps, j, accum) ==
  IF j >= Len(kmats) - 1
  THEN [calls |-> <<>>, accum |-> accum, complete |-> FALSE]
  ELSE LET vmat == vectorize_matrix(kmats[j + 1])
           p == ps[j + 1]
           rest == kraus_loop_nobreak(qs, kmats, r, ps, j + 1, accum + p)
           here == IF accum + p > r THEN apply_matrix(qs, rescale(vmat, p))
                   ELSE <<>>
       IN  [calls |-> <<Call("qreg_.norm", qs, vmat)>> \o here \o rest.calls,
            accum |-> rest.accum,
            complete |-> (accum + p > r) \/ rest.complete]

\* The loop rescaling the applied operator by the accumulated probability.
RECURSIVE kraus_loop_by_accum(_, _, _, _, _, _)
kraus_loop_by_accum(qs, kmats, r, ps, j, accum) ==
  IF j >= Len(kmats) - 1
  THEN [calls |-> <<>>, accum |-> accum, complete |-> FALSE]
  ELSE LET vmat == vectorize_matrix(kmats[j + 1])
           p == ps[j + 1]
       IN  IF accum + p > r
           THEN [calls |-> <<Call("qreg_.norm", qs, vmat)>>
                             \o apply_matrix(qs, rescale(vmat, accum + p)),
                 accum |-> accum + p, complete |-> TRUE]
           ELSE LET rest == kraus_loop_by_accum(qs, kmats, r, ps, j + 1, accum + p)
                IN  [rest EXCEPT
                       !.calls = <<Call("qreg_.norm", qs, vmat)>> \o @]

\* The loop taking an operator as soon as the accumulated probability
\* reaches r.
RECURSIVE kraus_loop_reaches(_, _, _, _, _, _)
kraus_loop_reaches(qs, kmats, r, ps, j, accum) ==
  IF j >= Len(kmats) - 1
  THEN [calls |-> <<>>, accum |-> accum, complete |-> FALSE]
  ELSE LET vmat == vectorize_matrix(kmats[j + 1])
           p == ps[j + 1]
       IN  IF accum + p >= r
           THEN [calls |-> <<Call("qreg_.norm", qs, vmat)>>
                             \o apply_matrix(qs, rescale(vmat, p)),
                 accum |-> accum + p, complete |-> TRUE]
           ELSE LET rest == kraus_loop_reaches(qs, kmats, r, ps, j + 1, accum + p)
                IN  [rest EXCEPT
                       !.calls = <<Call("qreg_.norm", qs, vmat)>> \o @]

\* for (size_t j = 0; j < kmats.size() - 1; j++): the probability of operator
\* j is asked of the container and accumulated; the first operator that
\* takes the accumulated probability above r is rescaled and applied, and
\* the loop is left.
RECURSIVE kraus_loop(_, _, _, _, _, _)
kraus_loop(qs, kmats, r, ps, j, accum) ==
  IF j >= Len(kmats) - 1
  THEN [calls |-> <<>>, accum |-> accum, complete |-> FALSE]
  ELSE LET vmat == vectorize_matrix(kmats[j + 1])
           p == ps[j + 1]
       IN  IF accum + p > r
           THEN [calls |-> <<Call("qreg_.norm", qs, vmat)>>
                             \o apply_matrix(qs, rescale(vmat, p)),
                 accum |-> accum + p, complete |-> TRUE]
           ELSE LET rest == kraus_loop(qs, kmats, r, ps, j + 1, accum + p)
                IN  [rest EXCEPT
                       !.calls = <<Call("qreg_.norm", qs, vmat)>> \o @]

\* apply_kraus drawing its deviate before it looks at the list.
apply_kraus_draws_first(qs, kmats, r, ps) ==
  <<Call("rng.rand", <<>>, r)>>
    \o (IF kmats = <<>> THEN <<>>
        ELSE LET loop == kraus_loop(qs, kmats, r, ps, 0, 0)
                 last == rescale(vectorize_matrix(kmats[Len(kmats)]),
                                 KrausDen - loop.accum)
             IN  loop.calls
                   \o (IF loop.complete THEN <<>> ELSE apply_matrix(qs, last)))

\* State::apply_kraus(qubits, kmats, rng), with r the deviate the generator
\* returns and ps the probabilities the container returns.
apply_kraus(qs, kmats, r, ps) ==
  IF kmats = <<>> THEN <<>>
  ELSE LET loop == kraus_loop(qs, kmats, r, ps, 0, 0)
           last == rescale(vectorize_matrix(kmats[Len(kmats)]),
                           KrausDen - loop.accum)
       IN  <<Call("rng.rand", <<>>, r)>> \o loop.calls
             \o (IF loop.complete THEN <<>> ELSE apply_matrix(qs, last))

\* ------------------------------------------------------- save operations
\* State::apply_save_statevector(op, result, last_op)
apply_save_statevector(o) ==
  IF Len(o.qubits) # num_qubits
  THEN Outcome("was not applied to all qubits", <<>>, "none")
  ELSE Outcome("none",
               <<Call("result.save_data_pershot", o.qubits, "statevector")>>,
               "none")

\* Saving the dictionary whatever the qubit list.
apply_save_statevector_dict_unchecked(o) ==
  Outcome("none",
          <<Call("qreg_.vector_ket", <<>>, json_chop_threshold_),
            Call("result.save_data_pershot", o.qubits, "state_ket")>>,
          "none")

\* State::apply_save_statevector_dict(op, result)
apply_save_statevector_dict(o) ==
  IF Len(o.qubits) # num_qubits
  THEN Outcome("was not applied to all qubits", <<>>, "none")
  ELSE Outcome("none",
               <<Call("qreg_.vector_ket", <<>>, json_chop_threshold_),
                 Call("result.save_data_pershot", o.qubits, "state_ket")>>,
               "none")

\* The handlers apply_op hands an operation to without more ado; they work
\* on the container, the classical register, the generator and the sink.
handler_of ==
  "reset" :> "apply_reset" @@ "initialize" :> "apply_initialize" @@
  "measure" :> "apply_measure" @@ "bfunc" :> "creg().apply_bfunc" @@
  "roerror" :> "creg().apply_roerror" @@
  "multiplexer" :> "apply_multiplexer" @@
  "set_statevec" :> "initialize_from_vector" @@
  "save_densmat" :> "apply_save_density_matrix" @@
  "save_probs" :> "apply_save_probs" @@
  "save_probs_ket" :> "apply_save_probs" @@
  "save_amps" :> "apply_save_amplitudes" @@
  "save_amps_sq" :> "apply_save_amplitudes"

\* The field the matrix case adds the elapsed time to.
fuse_timer(n) ==
  IF n = 2 THEN "time_Fuse2" ELSE IF n = 3 THEN "time_Fuse3"
  ELSE IF n = 4 THEN "time_Fuse4" ELSE IF n = 5 THEN "time_Fuse5"
  ELSE "none"

\* switch (op.type) of apply_op.
op_switch(o) ==
  CASE o.type \in {"barrier", "nop", "qerror_loc"} -> Outcome("none", <<>>, "none")
    [] o.type = "gate" -> apply_gate(o)
    [] o.type = "matrix" ->
         Outcome("none", apply_matrix_op(o), fuse_timer(Len(o.qubits)))
    [] o.type = "diagonal_matrix" ->
         Outcome("none", apply_diagonal_matrix(o.qubits, "op.params"), "time_Diag")
    [] o.type = "kraus" ->
         Outcome("none", apply_kraus(o.qubits, o.mats, rng_r, norms), "none")
    [] o.type = "sim_op" ->
         Outcome("none",
                 IF o.name = "begin_register_blocking"
                 THEN <<Call("qreg_.enter_register_blocking", o.qubits, "")>>
                 ELSE IF o.name = "end_register_blocking"
                 THEN <<Call("qreg_.leave_register_blocking", <<>>, "")>>
                 ELSE <<>>,
                 "none")
    [] o.type \in {"save_expval", "save_expval_var"} ->
         Outcome("none", <<Call("BaseState::apply_save_expval", o.qubits, "")>>,
                 "time_taken")
    [] o.type \in {"save_state", "save_statevec"} -> apply_save_statevector(o)
    [] o.type = "save_statevec_dict" -> apply_save_statevector_dict(o)
    [] o.type \in DOMAIN handler_of ->
         Outcome("none", <<Call(handler_of[o.type], o.qubits, "")>>, "none")
    [] OTHER -> Outcome("invalid instruction", <<>>, "none")

\* apply_op without the test of the operation's condition.
apply_op_unconditional(o) == op_switch(o)

\* State::apply_op(op, result, rng, final_op)
apply_op(o) ==
  IF check_conditional THEN op_switch(o) ELSE Outcome("none", <<>>, "none")

\* ---------------------------------------------- the operations of a run
\* The register has 1 .. MaxLocal local qubits and 0 .. MaxChunkBits more
\* that select the chunk; the Kraus lists have up to MaxKraus operators;
\* earlier operations have left 0 .. MaxPrior in the fields time_*.
MaxLocal == 2
MaxChunkBits == 1
MaxKraus == 3
MaxPrior == 1

OpNames == DOMAIN gateset_ \cup UnknownNames

\* Qubit lists of a gate: one or two distinct qubits of the whole register.
GateQubits ==
  {qs \in UNION {[1 .. n -> 0 .. (num_global_qubits_ - 1)] : n \in 1 .. 2} :
     IsDupFree(qs)}

MatI == <<<<1, 0>>, <<0, 1>>>>
MatX == <<<<0, 1>>, <<1, 0>>>>
MatP0 == <<<<1, 0>>, <<0, 0>>>>
MatDense == <<<<1, 1>>, <<1, 2>>>>
MatI4 == <<<<1, 0, 0, 0>>, <<0, 1, 0, 0>>, <<0, 0, 1, 0>>, <<0, 0, 0, 1>>>>
MatSwap4 == <<<<1, 0, 0, 0>>, <<0, 0, 1, 0>>, <<0, 1, 0, 0>>, <<0, 0, 0, 1>>>>

Op(type, name, qs, mats) ==
  [type |-> type, name |-> name, qubits |-> qs, mats |-> mats]

\* An operation together with what the generator and the container will
\* answer while it is applied.
Input(o, r, ps) == [op |-> o, r |-> r, ps |-> ps]

GateInputs ==
  {Input(Op("gate", n, qs, <<>>), 0, <<>>) : n \in OpNames, qs \in GateQubits}

MatrixInputs ==
  {Input(Op("matrix", "unitary", <<0>>, <<m>>), 0, <<>>) :
     m \in {MatI, MatX, MatP0, MatDense, <<>>}}
  \cup {Input(Op("matrix", "unitary", <<>>, <<MatX>>), 0, <<>>)}
  \cup (IF num_qubits >= 2
        THEN {Input(Op("matrix", "unitary", <<0, 1>>, <<m>>), 0, <<>>) :
                m \in {MatI4, MatSwap4}}
        ELSE {})

RECURSIVE SeqSum(_)
SeqSum(s) == IF s = <<>> THEN 0 ELSE Head(s) + SeqSum(Tail(s))

\* A Kraus operation: up to MaxKraus operators on qubit 0, the probabilities
\* of all but the last (they sum to at most 1) and the deviate r in [0, 1).
KrausInputs ==
  {Input(Op("kraus", "kraus", <<0>>, ks), r, ps) :
     ks \in UNION {[1 .. n -> {MatP0, MatX}] : n \in 0 .. MaxKraus},
     r \in 0 .. (KrausDen - 1),
     ps \in UNION {[1 .. n -> 0 .. KrausDen] : n \in 0 .. (MaxKraus - 1)}}

KrausInputsValid ==
  {i \in KrausInputs :
     /\ Len(i.ps) = (IF i.op.mats = <<>> THEN 0 ELSE Len(i.op.mats) - 1)
     /\ SeqSum(i.ps) <= KrausDen}

SaveInputs ==
  {Input(Op(t, t, qs, <<>>), 0, <<>>) :
     t \in {"save_state", "save_statevec", "save_statevec_dict"},
     qs \in UNION {[1 .. n -> 0 .. (num_qubits - 1)] : n \in 0 .. num_qubits}}

OtherInputs ==
  {Input(Op(t, t, <<0>>, <<>>), 0, <<>>) :
     t \in {"barrier", "nop", "qerror_loc", "diagonal_matrix", "save_expval",
            "save_expval_var", "jump", "mark"} \cup DOMAIN handler_of}
  \cup {Input(Op("sim_op", n, <<0>>, <<>>), 0, <<>>) :
          n \in {"begin_register_blocking", "end_register_blocking", "other"}}

StInputs ==
  GateInputs \cup MatrixInputs \cup KrausInputsValid \cup SaveInputs
    \cup OtherInputs

\* The object after construction, configuration and earlier operations (the
\* fields time_* hold what their calls added), with an operation at hand.
StInit ==
  /\ num_qubits \in 1 .. MaxLocal
  /\ num_global_qubits_ \in num_qubits .. (num_qubits + MaxChunkBits)
  /\ global_indexing \in BOOLEAN
  /\ chunk_index \in 0 .. (2 ^ (num_global_qubits_ - num_qubits) - 1)
  /\ check_conditional \in BOOLEAN
  /\ \E i \in StInputs : op = i.op /\ rng_r = i.r /\ norms = i.ps
  /\ \E prior \in 0 .. MaxPrior : timers = [n \in TimerNames |-> prior]
  /\ omp_qubit_threshold_ = 14 /\ sample_measure_index_size_ = 10
  /\ json_chop_threshold_ = "1e-10"
  /\ calls = <<>> /\ err = "none" /\ st_pc = "ready" /\ ncalls = 0

\* One call of apply_op, from its entry to its return or throw.  The clock
\* measures an elapsed time that is not negative.
ApplyOp ==
  /\ st_pc = "ready"
  /\ LET out == apply_op(op)
     IN  /\ calls' = out.calls
         /\ err' = out.err
         /\ st_pc' = IF out.err = "none" THEN "returned" ELSE "threw"
         /\ \E elapsed \in 0 .. 1 :
              timers' = IF out.timer = "none" THEN timers
                        ELSE [timers EXCEPT ![out.timer] = @ + elapsed]
  /\ ncalls' = ncalls + 1
  /\ UNCHANGED <<op, num_qubits, num_global_qubits_, global_indexing,
                 chunk_index, check_conditional, rng_r, norms,
                 omp_qubit_threshold_, sample_measure_index_size_,
                 json_chop_threshold_>>

InitState == StInit /\ IdxIdle /\ AlIdle /\ RdIdle /\ RsIdle
    /\ DmIdle /\ CrIdle /\ SmIdle

NextState == ApplyOp /\ UNCHANGED exceptSt

SpecState == InitState /\ [][NextState]_vars

\* ------------------------------------------ claims about the State layer
\* apply_op has been called on the operation and has handed it to its case.
Applied(types) ==
  st_pc # "ready" /\ ncalls = 1 /\ check_conditional /\ op.type \in types

\* The calls that apply an operator to the amplitudes.
Applications ==
  {i \in DOMAIN calls :
     calls[i].fn \in {"qreg_.apply_matrix", "qreg_.apply_diagonal_matrix"}}

\* v is the vectorised form of a diagonal matrix of dimension dim.
VecIsDiagonal(v, dim) ==
  /\ Len(v) = dim * dim
  /\ \A t \in DOMAIN v : ((t - 1) % dim) # ((t - 1) \div dim) => v[t] = 0

\* C13: a gate operation whose name the gate table does not have makes
\* apply_gate throw the invalid-gate error and apply nothing; it is never
\* passed over in silence, also not in a chunk of a distributed register
\* when the operation has control qubits outside the chunk.
C13_UnknownGateRejected ==
  (Applied({"gate"}) /\ op.name \notin DOMAIN gateset_) =>
    (st_pc = "threw" /\ err = "invalid gate instruction" /\ calls = <<>>)

\* C14: whenever the State layer applies a dense matrix that is diagonal (a
\* matrix operation, a rescaled Kraus operator), it calls the container's
\* diagonal application for it and not the container's generic one.
C14_DiagonalNeverGeneric ==
  Applied({"matrix", "kraus"}) =>
    \A i \in DOMAIN calls :
      calls[i].fn = "qreg_.apply_matrix" =>
        ~VecIsDiagonal(calls[i].arg.v, 2 ^ Len(calls[i].qubits))

\* C15 as claimed: apply_kraus on an empty list of operators does not
\* return normally but raises an invalid-noise-model error.
C15_EmptyKrausRaises ==
  (Applied({"kraus"}) /\ op.mats = <<>>) => st_pc = "threw"

\* C15 amended: apply_kraus on an empty list of operators returns normally
\* at once: no error is raised, no deviate is drawn, the container is
\* neither asked a probability nor made to apply anything.
C15_EmptyKrausReturnsEarly ==
  (Applied({"kraus"}) /\ op.mats = <<>>) =>
    (st_pc = "returned" /\ err = "none" /\ calls = <<>>)

C15_Witness ==
  /\ st_pc = "returned" /\ ncalls = 1 /\ check_conditional
  /\ op.type = "kraus" /\ op.mats = <<>> /\ num_qubits = 2

\* C16: for a non-empty list of Kraus operators, whatever the probabilities
\* the state yields and the deviate r in [0, 1), one apply_kraus applies
\* exactly one operator: never none, never two.
C16_ExactlyOneKrausApplied ==
  (Applied({"kraus"}) /\ op.mats # <<>>) =>
    (st_pc = "returned" /\ Cardinality(Applications) = 1)

C16_Witness ==
  /\ Applied({"kraus"}) /\ Len(op.mats) = 3
  /\ Len(calls) = 4 /\ calls[3].fn = "qreg_.norm"
  /\ calls[4].fn = "qreg_.apply_matrix" /\ calls[4].arg.scale = <<"rsqrt", norms[2]>>

\* The probability accumulated over the operators 0 .. j.
KrausCum(j) == SeqSum(SubSeq(norms, 1, j + 1))

\* The operators before the last whose accumulated probability exceeds r.
KrausOver == {j \in 0 .. (Len(op.mats) - 2) : KrausCum(j) > rng_r}

\* The operator to apply and the probability to rescale it by.
KrausChosen ==
  IF KrausOver = {} THEN Len(op.mats) - 1
  ELSE CHOOSE j \in KrausOver : \A i \in KrausOver : j <= i

KrausChosenProb ==
  IF KrausOver = {} THEN KrausDen - SeqSum(norms) ELSE norms[KrausChosen + 1]

\* C21: apply_kraus on a non-empty list draws exactly one deviate r, asks
\* the container the probability of the operators 0 .. j in that order and
\* of no other (never of the last), where j is the smallest index before the
\* last whose accumulated probability is strictly greater than r, and
\* applies operator j rescaled by 1/sqrt(p_j); when there is no such j it
\* asks the probabilities of all operators but the last and applies the last
\* one rescaled by 1/sqrt(1 - (p_0 + ... + p_{n-2})).
C21_KrausSelection ==
  (Applied({"kraus"}) /\ op.mats # <<>>) =>
    LET nq == IF KrausOver = {} THEN Len(op.mats) - 1 ELSE KrausChosen + 1
    IN  /\ Len(calls) = nq + 2
        /\ calls[1] = Call("rng.rand", <<>>, rng_r)
        /\ \A j \in 1 .. nq :
             calls[j + 1] =
               Call("qreg_.norm", op.qubits, vectorize_matrix(op.mats[j]))
        /\ calls[nq + 2].fn \in
             {"qreg_.apply_matrix", "qreg_.apply_diagonal_matrix"}
        /\ calls[nq + 2].qubits = op.qubits
        /\ calls[nq + 2].arg =
             [v |-> vectorize_matrix(op.mats[KrausChosen + 1]).v,
              scale |-> <<"rsqrt", KrausChosenProb>>]

C21_Witness ==
  /\ Applied({"kraus"}) /\ op.mats = <<MatP0, MatP0, MatX>>
  /\ rng_r = 1 /\ norms = <<0, 1>>
  /\ Len(calls) = 4 /\ calls[4].fn = "qreg_.apply_matrix"
  /\ calls[4].arg = [v |-> <<0, 1, 1, 0>>, scale |-> <<"rsqrt", 1>>]

\* C25: in apply_kraus with r in [0, 1) and probabilities that are not
\* negative no rescale factor divides by zero: the operator applied is
\* rescaled by 1/sqrt(p) with p > 0, be p the operator's own probability or
\* 1 minus the accumulated probability of the operators before the last.
C25_NoDivisionByZero ==
  (Applied({"kraus"}) /\ op.mats # <<>>) =>
    \A i \in Applications :
      /\ calls[i].arg.scale[1] = "rsqrt"
      /\ calls[i].arg.scale[2] > 0

C25_Witness ==
  /\ Applied({"kraus"}) /\ Len(op.mats) = 2 /\ rng_r = 0 /\ norms = <<0>>
  /\ Len(calls) = 3 /\ calls[3].arg.scale = <<"rsqrt", KrausDen>>

\* The operation reaches gateset_.find under its own name: apply_gate does
\* not leave through its multi-chunk prologue.
LookedUpByName ==
  ~(/\ multi_chunk
    /\ StartsWith_c(op.name) \/ StartsWith_mc(op.name)
    /\ Len(qubits_outside(op)) > 0)

\* The tables agree: every advertised gate name has an entry in gateset_, the
\* entries are enumerators of Gates, and every enumerator has its own case in
\* the switch of apply_gate.
GateTablesAgree ==
  /\ StateOpSet_gates \subseteq DOMAIN gateset_
  /\ Range(gateset_) \subseteq Gates
  /\ \A g \in Gates :
       gate_switch(Op("gate", "", <<0>>, <<>>), g).err = "none"

OtherFields ==
  <<omp_qubit_threshold_, sample_measure_index_size_, json_chop_threshold_,
    num_global_qubits_>>

MaxRsQubits == 2

\* The container (QubitVector) on an array d of 2^m amplitudes.  The
\* amplitudes are kept up to a positive factor: the renormalisations
\* 1/sqrt(p) of the State layer are factors 1 here.

\* qreg_.probabilities(qubits): for each outcome j of the listed qubits the
\* sum of the squared amplitudes over the index blocks.
RECURSIVE qv_prob(_, _, _, _, _)
qv_prob(d, m, qs, j, kk) ==
  IF kk >= 2 ^ (m - Len(qs)) THEN 0
  ELSE LET a == d[indexes(qs, Sort(qs), kk)[j]]
       IN  a * a + qv_prob(d, m, qs, j, kk + 1)

qv_probabilities(d, m, qs) ==
  [j \in 0 .. (2 ^ Len(qs) - 1) |-> qv_prob(d, m, qs, j, 0)]

\* qreg_.apply_diagonal_matrix(qubits, diag): entry j of every block is
\* multiplied by diag[j].
qv_apply_diagonal_matrix(d, m, qs, diag) ==
  [i \in DOMAIN d |->
     LET kk == Squeeze(i, 0, Range(qs))
         blk == indexes(qs, Sort(qs), kk)
         j == CHOOSE x \in DOMAIN blk : blk[x] = i
     IN  d[i] * diag.v[j + 1]]

\* qreg_.apply_matrix(qubits, vmat): every block is multiplied by the matrix
\* whose columns vmat holds one after another.
RECURSIVE qv_row(_, _, _, _, _)
qv_row(d, blk, vmat, r, c) ==
  LET dim == Cardinality(DOMAIN blk)
  IN  IF c >= dim THEN 0
      ELSE vmat.v[1 + r + dim * c] * d[blk[c]] + qv_row(d, blk, vmat, r, c + 1)

qv_apply_matrix(d, m, qs, vmat) ==
  [i \in DOMAIN d |->
     LET kk == Squeeze(i, 0, Range(qs))
         blk == indexes(qs, Sort(qs), kk)
         r == CHOOSE x \in DOMAIN blk : blk[x] = i
     IN  qv_row(d, blk, vmat, r, 0)]

\* qreg_.apply_mcx(qubits): in every block the two entries with all control
\* bits set (the last listed qubit is the target) change places.
qv_apply_mcx(d, m, qs) ==
  LET n == Len(qs)
      pos0 == MASKS(n - 1)
      pos1 == MASKS(n)
  IN  [i \in DOMAIN d |->
         LET kk == Squeeze(i, 0, Range(qs))
             blk == indexes(qs, Sort(qs), kk)
         IN  IF i = blk[pos0] THEN d[blk[pos1]]
             ELSE IF i = blk[pos1] THEN d[blk[pos0]]
             ELSE d[i]]

\* The array after the container has served a sequence of calls.
RECURSIVE qv_run(_, _, _)
qv_run(d, m, cs) ==
  IF cs = <<>> THEN d
  ELSE LET c == Head(cs)
           after ==
             CASE c.fn = "qreg_.apply_diagonal_matrix" ->
                    qv_apply_diagonal_matrix(d, m, c.qubits, c.arg)
               [] c.fn = "qreg_.apply_matrix" ->
                    qv_apply_matrix(d, m, c.qubits, c.arg)
               [] c.fn = "qreg_.apply_mcx" -> qv_apply_mcx(d, m, c.qubits)
               [] OTHER -> d
       IN  qv_run(after, m, Tail(cs))

\* cvector_t mdiag(dim, 0.); mdiag[meas_state] = 1. / std::sqrt(meas_prob);
mdiag_of(dim, meas_state, meas_prob) ==
  [v |-> [t \in 1 .. dim |-> IF t = meas_state + 1 THEN 1 ELSE 0],
   scale |-> <<"rsqrt", meas_prob>>]

\* The permutation without the entry that takes final_state to meas_state.
perm_of_oneway(dim, final_state, meas_state) ==
  [v |-> [t \in 1 .. (dim * dim) |->
            IF t - 1 = final_state * dim + meas_state THEN 1
            ELSE IF \E j \in 0 .. (dim - 1) :
                      /\ j # final_state /\ j # meas_state
                      /\ t - 1 = j * dim + j
                 THEN 1
            ELSE 0],
   scale |-> <<"one">>]

\* The vectorised permutation matrix that swaps final_state and meas_state.
perm_of(dim, final_state, meas_state) ==
  [v |-> [t \in 1 .. (dim * dim) |->
            IF t - 1 = final_state * dim + meas_state THEN 1
            ELSE IF t - 1 = meas_state * dim + final_state THEN 1
            ELSE IF \E j \in 0 .. (dim - 1) :
                      /\ j # final_state /\ j # meas_state
                      /\ t - 1 = j * dim + j
                 THEN 1
            ELSE 0],
   scale |-> <<"one">>]

\* State::measure_reset_update(qubits, final_state, meas_state, meas_prob):
\* the calls it makes on the container.
measure_reset_update(qs, final_state, meas_state, meas_prob) ==
  IF Len(qs) = 1
  THEN <<Call("qreg_.apply_diagonal_matrix", qs,
              mdiag_of(2, meas_state, meas_prob))>>
         \o (IF final_state # meas_state
             THEN <<Call("qreg_.apply_mcx", qs, "")>> ELSE <<>>)
  ELSE LET dim == Shl(1, Len(qs))
       IN  <<Call("qreg_.apply_diagonal_matrix", qs,
                  mdiag_of(dim, meas_state, meas_prob))>>
             \o (IF final_state # meas_state
                 THEN apply_matrix(qs, perm_of(dim, final_state, meas_state))
                 ELSE <<>>)

\* An update that leaves the register in the measured state.
reset_final_state_keep(meas_state) == meas_state

\* apply_reset: measure_reset_update(qubits, 0, meas.first, meas.second)
reset_final_state(meas_state) == 0

\* A measurement that resets its qubits.
measure_final_state_zero(meas_state) == 0

\* apply_measure: measure_reset_update(qubits, meas.first, meas.first,
\* meas.second)
measure_final_state(meas_state) == meas_state

\* Utils::int2reg(n, 2): the binary digits of n, lowest first.
RECURSIVE int2reg_digits(_, _)
int2reg_digits(n, base) ==
  IF n >= base THEN <<n % base>> \o int2reg_digits(n \div base, base)
  ELSE <<n>>

\* Utils::int2reg(n, base, minlen): the digits, padded with 0 to minlen.
int2reg(n, base, minlen) ==
  LET ds == int2reg_digits(n, base)
  IN  [i \in 1 .. (IF Len(ds) < minlen THEN minlen ELSE Len(ds)) |->
         IF i <= Len(ds) THEN ds[i] ELSE 0]

\* The register at the call: some amplitudes are not zero (entry i holds
\* i + 1 or 0), the qubits to reset or to measure are distinct, a
\* measurement has at least one qubit.
RsInit ==
  /\ rs_op \in {"reset", "measure"}
  /\ rs_M \in 1 .. MaxRsQubits
  /\ \E S \in (SUBSET (0 .. (2 ^ rs_M - 1))) \ {{}} :
       rs_amps = [i \in 0 .. (2 ^ rs_M - 1) |-> IF i \in S THEN i + 1 ELSE 0]
  /\ rs_qubits \in {qs \in QubitLists(rs_M) : IsDupFree(qs)}
  /\ rs_op = "measure" => rs_qubits # <<>>
  /\ rs_meas = <<>> /\ rs_calls = <<>> /\ rs_pc = "call"

\* sample_measure_with_prob: rng.rand_int(probs) draws an outcome with its
\* weight, so one of probability zero is never drawn.
RsSample ==
  /\ rs_pc = "call"
  /\ LET probs == qv_probabilities(rs_amps, rs_M, rs_qubits)
     IN  \E outcome \in DOMAIN probs :
           /\ probs[outcome] > 0
           /\ rs_meas' = <<outcome, probs[outcome]>>
  /\ rs_calls' = <<Call("qreg_.probabilities", rs_qubits, "")>>
  /\ rs_pc' = "sampled"
  /\ UNCHANGED <<rs_op, rs_M, rs_amps, rs_qubits>>

\* measure_reset_update(qubits, final_state, meas.first, meas.second),
\* served by the container; apply_reset returns after it.
RsUpdate ==
  /\ rs_pc = "sampled"
  /\ LET final_state == IF rs_op = "reset"
                        THEN reset_final_state(rs_meas[1])
                        ELSE measure_final_state(rs_meas[1])
         cs == measure_reset_update(rs_qubits, final_state,
                                    rs_meas[1], rs_meas[2])
     IN  /\ rs_calls' = rs_calls \o cs
         /\ rs_amps' = qv_run(rs_amps, rs_M, cs)
  /\ rs_pc' = IF rs_op = "reset" THEN "done" ELSE "updated"
  /\ UNCHANGED <<rs_op, rs_M, rs_qubits, rs_meas>>

\* apply_measure: creg().store_measure(int2reg(meas.first, 2,
\* qubits.size()), cmemory, cregister)
RsStore ==
  /\ rs_pc = "updated"
  /\ rs_calls' = rs_calls \o
       <<Call("creg().store_measure", rs_qubits,
              int2reg(rs_meas[1], 2, Len(rs_qubits)))>>
  /\ rs_pc' = "done"
  /\ UNCHANGED <<rs_op, rs_M, rs_amps, rs_qubits, rs_meas>>

InitReset == RsInit /\ IdxIdle /\ AlIdle /\ RdIdle /\ StIdle
    /\ DmIdle /\ CrIdle /\ SmIdle

NextReset ==
  \/ (RsSample /\ UNCHANGED exceptRs)
  \/ (RsUpdate /\ UNCHANGED exceptRs)
  \/ (RsStore /\ UNCHANGED exceptRs)

SpecReset == InitReset /\ [][NextReset]_vars

\* C17: after apply_reset on a duplicate-free qubit list, of one or of
\* several qubits, for any input state and any sampled outcome of non-zero
\* probability, every basis index whose amplitude is not zero has the bit of
\* every reset qubit equal to 0.
C17_ResetQubitsZero ==
  (rs_op = "reset" /\ rs_pc = "done") =>
    /\ \A i \in DOMAIN rs_amps :
         rs_amps[i] # 0 => \A q \in Range(rs_qubits) : ~BitIsSet(i, q)
    /\ \E i \in DOMAIN rs_amps : rs_amps[i] # 0

C17_Witness ==
  /\ rs_op = "reset" /\ rs_pc = "done" /\ Len(rs_qubits) = 2 /\ rs_meas[1] = 2
  /\ Len(rs_calls) = 3 /\ rs_calls[3].fn = "qreg_.apply_matrix"
  /\ rs_amps[0] # 0

\* ------------------------------- claims about reset and measurement
\* Entry (row, col) of the dim x dim matrix with the vectorised form v.
VecEntry(v, dim, row, col) == v[col * dim + row + 1]

\* v is the permutation matrix that exchanges the basis states a and b and
\* keeps every other basis state.
IsSwapPermutation(v, dim, a, b) ==
  /\ Len(v) = dim * dim
  /\ \A t \in DOMAIN v : v[t] \in {0, 1}
  /\ \A row \in 0 .. (dim - 1) :
       Cardinality({col \in 0 .. (dim - 1) : VecEntry(v, dim, row, col) = 1}) = 1
  /\ \A col \in 0 .. (dim - 1) :
       Cardinality({row \in 0 .. (dim - 1) : VecEntry(v, dim, row, col) = 1}) = 1
  /\ VecEntry(v, dim, a, b) = 1
  /\ VecEntry(v, dim, b, a) = 1
  /\ \A j \in 0 .. (dim - 1) : (j # a /\ j # b) => VecEntry(v, dim, j, j) = 1

\* The calls cs are the projection onto meas_state followed by the generic
\* application of the permutation exchanging final_state and meas_state.
ProjectionThenSwap(cs, qs, final_state, meas_state) ==
  LET dim == 2 ^ Len(qs)
  IN  /\ Len(cs) = 2
      /\ cs[1].fn = "qreg_.apply_diagonal_matrix" /\ cs[1].qubits = qs
      /\ \A t \in DOMAIN cs[1].arg.v :
           (cs[1].arg.v[t] # 0) <=> (t = meas_state + 1)
      /\ cs[2].fn = "qreg_.apply_matrix" /\ cs[2].qubits = qs
      /\ cs[2].arg.scale = <<"one">>
      /\ IsSwapPermutation(cs[2].arg.v, dim, final_state, meas_state)

\* C22: in the multi-qubit case of measure_reset_update with final_state
\* different from meas_state the matrix built is a permutation matrix (one
\* entry 1 in every row and in every column, 0 elsewhere) that takes
\* meas_state to final_state, final_state to meas_state and every other
\* basis state to itself, and it is applied after the projection diagonal:
\* for every pair of distinct states, and in every reset that samples an
\* outcome other than 0.
C22_ResetPermutation ==
  (rs_pc = "done" /\ rs_op = "reset" /\ Len(rs_qubits) > 1) =>
    /\ \A f, m \in 0 .. (2 ^ Len(rs_qubits) - 1) :
         f # m =>
           ProjectionThenSwap(
             measure_reset_update(rs_qubits, f, m, rs_meas[2]),
             rs_qubits, f, m)
    /\ rs_meas[1] # 0 =>
         /\ Len(rs_calls) = 3
         /\ ProjectionThenSwap(SubSeq(rs_calls, 2, 3), rs_qubits, 0, rs_meas[1])

C22_Witness ==
  /\ rs_pc = "done" /\ rs_op = "reset" /\ rs_qubits = <<1, 0>>
  /\ rs_meas[1] = 3 /\ Len(rs_calls) = 3
  /\ rs_calls[3].fn = "qreg_.apply_matrix"
  /\ rs_calls[3].arg.v = <<0, 0, 0, 1, 0, 1, 0, 0, 0, 0, 1, 0, 1, 0, 0, 0>>

RECURSIVE BitsValue(_)
BitsValue(reg) ==
  IF reg = <<>> THEN 0 ELSE Head(reg) + 2 * BitsValue(Tail(reg))

\* C23: apply_measure performs, in this order, one sampling of an outcome,
\* one projection update with the final state equal to the measured state
\* (a diagonal whose only entry that is not 0 is at the measured state, no
\* bit flip and no permutation), and one store into the classical register
\* of the bit-string of length |qubits| whose value is the outcome; the
\* amplitudes left are those of the measured outcome.
C23_MeasureOrder ==
  (rs_op = "measure" /\ rs_pc = "done") =>
    /\ Len(rs_calls) = 3
    /\ rs_calls[1] = Call("qreg_.probabilities", rs_qubits, "")
    /\ rs_calls[2].fn = "qreg_.apply_diagonal_matrix"
    /\ rs_calls[2].qubits = rs_qubits
    /\ \A t \in DOMAIN rs_calls[2].arg.v :
         (rs_calls[2].arg.v[t] # 0) <=> (t = rs_meas[1] + 1)
    /\ rs_calls[3].fn = "creg().store_measure"
    /\ Len(rs_calls[3].arg) = Len(rs_qubits)
    /\ \A i \in DOMAIN rs_calls[3].arg : rs_calls[3].arg[i] \in {0, 1}
    /\ BitsValue(rs_calls[3].arg) = rs_meas[1]
    /\ \A i \in DOMAIN rs_amps :
         rs_amps[i] # 0 =>
           \A k \in DOMAIN rs_qubits :
             BitIsSet(i, rs_qubits[k]) <=> BitIsSet(rs_meas[1], k - 1)

C23_Witness ==
  /\ rs_op = "measure" /\ rs_pc = "done" /\ rs_qubits = <<1, 0>>
  /\ rs_meas[1] = 2 /\ rs_calls[3].arg = <<0, 1>>
  /\ rs_amps[1] # 0

\* ============================================ density matrix of the state
\* The register of a save_density_matrix has 1 .. MaxDmQubits qubits.
MaxDmQubits == 2

\* complex_t as <<re, im>> with integer parts.
cplx_mul(a, b) == <<a[1] * b[1] - a[2] * b[2], a[1] * b[2] + a[2] * b[1]>>

cplx_conj(a) == <<a[1], -a[2]>>

cplx_add(a, b) == <<a[1] + b[1], a[2] + b[2]>>

\* qreg_.norm(): the sum of the squared moduli of the amplitudes.
RECURSIVE qv_norm(_, _)
qv_norm(vec, i) ==
  IF i \notin DOMAIN vec THEN 0
  ELSE vec[i][1] * vec[i][1] + vec[i][2] * vec[i][2] + qv_norm(vec, i + 1)

\* An entry computed without the conjugation.
densmat_entry_noconj(a, b) == cplx_mul(a, b)

\* complex_t(vec[row]) * complex_t(std::conj(vec[col]))
densmat_entry(a, b) == cplx_mul(a, cplx_conj(b))

\* The direct path: iteration rowcol of the loop over [0, DIM * DIM) writes
\* densmat(row, col) with row = rowcol >> N, col = rowcol & MASKS[N].  The
\* iterations write distinct cells, so their order (omp or not) is immaterial;
\* a cell no iteration writes keeps the 0 of cmatrix_t(DIM, DIM).
direct_write(N, vec, rowcol) ==
  LET row == Shr(rowcol, N)
      col == BitAnd(rowcol, MASKS(N))
  IN  [row |-> row, col |-> col, val |-> densmat_entry(vec[row], vec[col])]

vec2density_direct(N, vec) ==
  LET DIM == Shl(1, N)
      writes == {direct_write(N, vec, rowcol) : rowcol \in 0 .. (DIM * DIM - 1)}
  IN  [row \in 0 .. (DIM - 1) |->
        [col \in 0 .. (DIM - 1) |->
          IF \E w \in writes : w.row = row /\ w.col = col
          THEN (CHOOSE w \in writes : w.row = row /\ w.col = col).val
          ELSE <<0, 0>>]]

\* The general path with every block stored over the ones before it.
RECURSIVE vec2density_blocks_stored(_, _, _, _, _)
vec2density_blocks_stored(qs, qs_sorted, vec, blk_END, k) ==
  LET DIM  == Shl(1, Len(qs))
      blk_inds == indexes(qs, qs_sorted, k)
      blk  == [row \in 0 .. (DIM - 1) |->
                [col \in 0 .. (DIM - 1) |->
                  densmat_entry(vec[blk_inds[row]], vec[blk_inds[col]])]]
  IN  IF k + 1 >= blk_END THEN blk
      ELSE vec2density_blocks_stored(qs, qs_sorted, vec, blk_END, k + 1)

\* The general path: the first block initialises the matrix, the blocks
\* k = 1 .. END - 1 are accumulated onto it.
RECURSIVE vec2density_blocks(_, _, _, _, _)
vec2density_blocks(qs, qs_sorted, vec, blk_END, k) ==
  LET DIM  == Shl(1, Len(qs))
      blk_inds == indexes(qs, qs_sorted, k)
      blk  == [row \in 0 .. (DIM - 1) |->
                [col \in 0 .. (DIM - 1) |->
                  densmat_entry(vec[blk_inds[row]], vec[blk_inds[col]])]]
  IN  IF k + 1 >= blk_END THEN blk
      ELSE LET rest == vec2density_blocks(qs, qs_sorted, vec, blk_END, k + 1)
           IN  [row \in 0 .. (DIM - 1) |->
                 [col \in 0 .. (DIM - 1) |->
                   cplx_add(blk[row][col], rest[row][col])]]

\* State::vec2density(qubits, vec) on a register of m qubits.
vec2density(m, qs, vec) ==
  LET N == Len(qs)
      qs_sorted == Sort(qs)
  IN  IF N = m /\ qs = qs_sorted
      THEN vec2density_direct(N, vec)
      ELSE vec2density_blocks(qs, qs_sorted, vec, Shl(1, m - N), 0)

\* State::density_matrix(qubits): vec2density(qubits, copy_to_vector()).
density_matrix(m, qs, vec) == vec2density(m, qs, vec)

\* State::apply_save_density_matrix: the matrix handed to the result sink.
apply_save_density_matrix(m, qs, vec) ==
  IF qs = <<>>
  THEN [row \in 0 .. 0 |-> [col \in 0 .. 0 |-> <<qv_norm(vec, 0), 0>>]]
  ELSE density_matrix(m, qs, vec)

\* The register at the call: a state vector that is not zero (entry i holds
\* 0 or the amplitude (i + 1) - (i % 3) i), a duplicate-free qubit list.
DmInit ==
  /\ dm_M \in 1 .. MaxDmQubits
  /\ \E S \in (SUBSET (0 .. (2 ^ dm_M - 1))) \ {{}} :
       dm_vec = [i \in 0 .. (2 ^ dm_M - 1) |->
                  IF i \in S THEN <<i + 1, -(i % 3)>> ELSE <<0, 0>>]
  /\ dm_qubits \in {qs \in QubitLists(dm_M) : IsDupFree(qs)}
  /\ dm_ret = <<>> /\ dm_pc = "call"

\* apply_save_density_matrix(op, result)
DmSave ==
  /\ dm_pc = "call"
  /\ dm_ret' = apply_save_density_matrix(dm_M, dm_qubits, dm_vec)
  /\ dm_pc' = "done"
  /\ UNCHANGED <<dm_M, dm_vec, dm_qubits>>

InitDens == DmInit /\ IdxIdle /\ AlIdle /\ RdIdle /\ StIdle
    /\ RsIdle /\ CrIdle /\ SmIdle

NextDens == DmSave /\ UNCHANGED exceptDm

SpecDens == InitDens /\ [][NextDens]_vars

Abs2(a) == a[1] * a[1] + a[2] * a[2]

RECURSIVE Trace(_, _)
Trace(rho, i) ==
  IF i \notin DOMAIN rho THEN <<0, 0>>
  ELSE cplx_add(rho[i][i], Trace(rho, i + 1))

\* C18: for the qubit list equal to the full sorted range of the register
\* the saved matrix rho has rho[row][col] = amp[row] * conj(amp[col]) for all
\* row, col in [0, 2^N), so its diagonal holds the probabilities |amp[i]|^2
\* of the basis states and its trace is the total norm of the state; for the
\* empty qubit list the saved matrix is the 1x1 matrix holding the total norm.
C18_DensityOfFullRange ==
  dm_pc = "done" =>
    LET DIM  == 2 ^ dm_M
        norm == qv_norm(dm_vec, 0)
    IN  /\ dm_qubits = [j \in 1 .. dm_M |-> j - 1] =>
             /\ DOMAIN dm_ret = 0 .. (DIM - 1)
             /\ \A row, col \in 0 .. (DIM - 1) :
                  LET a == dm_vec[row]
                      b == dm_vec[col]
                  IN  dm_ret[row][col] =
                        <<a[1] * b[1] + a[2] * b[2], a[2] * b[1] - a[1] * b[2]>>
             /\ \A i \in 0 .. (DIM - 1) : dm_ret[i][i] = <<Abs2(dm_vec[i]), 0>>
             /\ Trace(dm_ret, 0) = <<norm, 0>>
        /\ dm_qubits = <<>> =>
             /\ DOMAIN dm_ret = {0} /\ DOMAIN dm_ret[0] = {0}
             /\ dm_ret[0][0] = <<norm, 0>>

C18_Witness ==
  /\ dm_pc = "done" /\ dm_M = 2 /\ dm_qubits = <<0, 1>>
  /\ dm_vec[1] = <<2, -1>> /\ dm_vec[2] = <<3, -2>>
  /\ dm_ret[1][2] = <<8, 1>> /\ dm_ret[2][1] = <<8, -1>>
  /\ dm_ret[2][2] = <<13, 0>>

\* C30: when the condition of the operation on the classical register is
\* false, apply_op applies nothing, whatever the operation's type or name:
\* no call reaches the amplitude container, the classical register, the
\* result sink or the random generator, no error is raised and the call
\* returns.
C30_FalseConditionAppliesNothing ==
  (st_pc # "ready" /\ ncalls = 1 /\ ~check_conditional) =>
    (st_pc = "returned" /\ err = "none" /\ calls = <<>>)

C30_Witness ==
  /\ st_pc = "returned" /\ ncalls = 1 /\ ~check_conditional
  /\ op.type = "kraus" /\ Len(op.mats) = 2 /\ calls = <<>>

\* The sum over the reduced indices k .. last of
\* vec[block_k[r]] * conj(vec[block_k[c]]).
RECURSIVE BlockSum(_, _, _, _)
BlockSum(r, c, k, last) ==
  IF k > last THEN <<0, 0>>
  ELSE LET blk == indexes(dm_qubits, Sort(dm_qubits), k)
           a == dm_vec[blk[r]]
           b == dm_vec[blk[c]]
           rest == BlockSum(r, c, k + 1, last)
       IN  <<a[1] * b[1] + a[2] * b[2] + rest[1],
             a[2] * b[1] - a[1] * b[2] + rest[2]>>

\* C24: in the general path of vec2density, for a duplicate-free qubit list
\* of size N over M qubits, every reduced index k in [0, 2^(M-N)) contributes
\* once, through its one index block: the result is rho[r][c] = sum over k
\* of vec[block_k[r]] * conj(vec[block_k[c]]), its trace is the total norm
\* of the vector; and for the full sorted qubit range the general path
\* gives the matrix of the direct path.
C24_GeneralPathSumsBlocks ==
  dm_pc = "done" =>
    LET N == Len(dm_qubits)
        DIM == 2 ^ N
        full == [j \in 1 .. dm_M |-> j - 1]
    IN  /\ (dm_qubits # <<>> /\ dm_qubits # full) =>
             /\ DOMAIN dm_ret = 0 .. (DIM - 1)
             /\ \A r, c \in 0 .. (DIM - 1) :
                  dm_ret[r][c] = BlockSum(r, c, 0, 2 ^ (dm_M - N) - 1)
             /\ Trace(dm_ret, 0) = <<qv_norm(dm_vec, 0), 0>>
        /\ dm_qubits = full =>
             vec2density_blocks(full, full, dm_vec, 1, 0) = dm_ret

C24_Witness ==
  /\ dm_pc = "done" /\ dm_M = 2 /\ dm_qubits = <<1>>
  /\ dm_vec = (0 :> <<1, 0>> @@ 1 :> <<2, -1>> @@ 2 :> <<3, -2>> @@ 3 :> <<4, 0>>)
  /\ dm_ret[0][0] = <<6, 0>> /\ dm_ret[0][1] = <<11, -2>>
  /\ dm_ret[1][1] = <<29, 0>>

\* ============================================== apply_lambda_MOSQ_CR
\* The amplitude array of a MOSQ_CR has 1 .. MaxCrQubits qubits.
MaxCrQubits == 2

\* uint_t is an unsigned integer of 64 bits.
uint_t_bits == 64

\* a ^ b on unsigned integers.
RECURSIVE BitXor(_, _)
BitXor(a, b) ==
  IF a = 0 THEN b ELSE IF b = 0 THEN a
  ELSE ((a + b) % 2) + 2 * BitXor(a \div 2, b \div 2)

\* (x >> i) & 1 on a value of the model, which has no bit at 31 or above.
BitAt(x, i) == IF i > 30 THEN 0 ELSE (x \div (2 ^ i)) % 2

\* for (int i = sizeof(XY_idx) * 8 - 1; i >= 0; --i) if ((XY_idx >> i) & 1)
\* { highest_one_pos = i; break; }, from highest_one_pos = -1: the scan
\* from the top stops at the highest position that holds a 1.
highest_one_pos(XY_idx) ==
  LET ones == {i \in 0 .. (uint_t_bits - 1) : BitAt(XY_idx, i) = 1}
  IN  IF ones = {} THEN -1
      ELSE CHOOSE i \in ones : \A j \in ones : j <= i

\* The number of bits set: while (temp) { num_Y += (temp & 1); temp >>= 1; }
\* and the loops over the sizeof(idx0) * 8 bits of the masked values.
RECURSIVE count_ones(_)
count_ones(v) == IF v = 0 THEN 0 ELSE (v % 2) + count_ones(v \div 2)

\* idx0 with the low bits shifted up by as much as the high ones.
mosq_cr_idx0_nogap(k, XY_idx) ==
  LET h == highest_one_pos(XY_idx)
  IN  IF h > -1
      THEN BitOr(Shl(Shr(k, h), h), Shl(BitAnd(k, MASKS(h)), 1))
      ELSE k

\* idx0 = k with a 0 inserted at the position of the highest bit of XY_idx.
mosq_cr_idx0(k, XY_idx) ==
  LET h == highest_one_pos(XY_idx)
  IN  IF h > -1
      THEN BitOr(Shl(Shr(k, h), h + 1), BitAnd(k, MASKS(h)))
      ELSE k

\* 2^e modulo m.
RECURSIVE PowMod2(_, _)
PowMod2(e, m) ==
  IF e = 0 THEN 1 % m
  ELSE IF e % 2 = 0
  THEN LET h == PowMod2(e \div 2, m) IN (h * h) % m
  ELSE (2 * PowMod2(e - 1, m)) % m

\* The selector computed on signed integers: the remainder has the sign of
\* the dividend.
mosq_cr_mat_sel_signed(idx0, Y_idx, Z_idx) ==
  LET num_Y == count_ones(Y_idx)
      Y_count == count_ones(BitAnd(Y_idx, idx0))
      Z_count == count_ones(BitAnd(Z_idx, idx0))
      x == num_Y - 2 * Y_count + 2 * Z_count
  IN  IF x >= 0 THEN x % 4 ELSE 0 - ((0 - x) % 4)

\* uint_t mat_sel = (num_Y - 2 * Y_count + 2 * Z_count) % 4: the value is
\* taken modulo 2^64 (a negative x wraps to x + 2^64) and then modulo 4.
mosq_cr_mat_sel(idx0, Y_idx, Z_idx) ==
  LET num_Y == count_ones(Y_idx)
      Y_count == count_ones(BitAnd(Y_idx, idx0))
      Z_count == count_ones(BitAnd(Z_idx, idx0))
      x == num_Y - 2 * Y_count + 2 * Z_count
  IN  IF x >= 0 THEN x % 4
      ELSE ((x % 4) + PowMod2(uint_t_bits, 4)) % 4

\* One iteration of the loop of the omp branch: the call of func it makes.
mosq_cr_par(k) ==
  LET XY_idx == BitXor(cr_X, cr_Y)
      idx0 == mosq_cr_idx0(k, XY_idx)
      idx1 == BitXor(idx0, XY_idx)
  IN  [k |-> k, inds |-> <<idx0, idx1>>,
       mat_sel |-> mosq_cr_mat_sel(idx0, cr_Y, cr_Z)]

\* One iteration of the loop of the sequential branch.
mosq_cr_seq(k) ==
  LET XY_idx == BitXor(cr_X, cr_Y)
      idx0 == mosq_cr_idx0(k, XY_idx)
      idx1 == BitXor(idx0, XY_idx)
  IN  [k |-> k, inds |-> <<idx0, idx1>>,
       mat_sel |-> mosq_cr_mat_sel(idx0, cr_Y, cr_Z)]

\* const int_t END = stop >> 1, with stop = 2^M.
cr_END == Shr(2 ^ cr_M, 1)

\* The call: start = 0, stop = 2^M, masks below 2^M, one or two threads.
CrInit ==
  /\ cr_M \in 1 .. MaxCrQubits
  /\ cr_X \in 0 .. (2 ^ cr_M - 1)
  /\ cr_Y \in 0 .. (2 ^ cr_M - 1)
  /\ cr_Z \in 0 .. (2 ^ cr_M - 1)
  /\ cr_threads \in 1 .. 2
  /\ cr_k = 0
  /\ cr_todo = 0 .. (cr_END - 1)
  /\ cr_run = [t \in 1 .. cr_threads |-> <<>>]
  /\ cr_log = {}
  /\ cr_phase = "loop"

\* func is called with mat0 .. mat3 for mat_sel 0 .. 3 and not otherwise.
CrCalls(c) == c.mat_sel \in 0 .. 3

\* The sequential branch: iteration k, with its call of func.
CrSeqIter ==
  /\ cr_phase = "loop" /\ cr_threads <= 1 /\ cr_k < cr_END
  /\ cr_log' = IF CrCalls(mosq_cr_seq(cr_k))
               THEN cr_log \cup {mosq_cr_seq(cr_k)} ELSE cr_log
  /\ cr_k' = cr_k + 1
  /\ cr_todo' = cr_todo \ {cr_k}
  /\ UNCHANGED <<cr_M, cr_X, cr_Y, cr_Z, cr_threads, cr_run, cr_phase>>

\* The omp branch: a thread of the team takes an iteration and enters func.
CrParTake ==
  /\ cr_phase = "loop" /\ cr_threads > 1
  /\ \E t \in 1 .. cr_threads, k \in cr_todo :
       /\ cr_run[t] = <<>>
       /\ cr_todo' = cr_todo \ {k}
       /\ cr_run' = IF CrCalls(mosq_cr_par(k))
                    THEN [cr_run EXCEPT ![t] = mosq_cr_par(k)] ELSE cr_run
  /\ UNCHANGED <<cr_M, cr_X, cr_Y, cr_Z, cr_threads, cr_k, cr_log, cr_phase>>

\* func returns to the thread.
CrParDone ==
  /\ cr_phase = "loop" /\ cr_threads > 1
  /\ \E t \in 1 .. cr_threads :
       /\ cr_run[t] # <<>>
       /\ cr_log' = cr_log \cup {cr_run[t]}
       /\ cr_run' = [cr_run EXCEPT ![t] = <<>>]
  /\ UNCHANGED <<cr_M, cr_X, cr_Y, cr_Z, cr_threads, cr_k, cr_todo, cr_phase>>

\* The loop is over (after the barrier of the omp region) and the function
\* returns.
CrExit ==
  /\ cr_phase = "loop"
  /\ IF cr_threads > 1
     THEN cr_todo = {} /\ \A t \in 1 .. cr_threads : cr_run[t] = <<>>
     ELSE cr_k >= cr_END
  /\ cr_phase' = "done"
  /\ UNCHANGED <<cr_M, cr_X, cr_Y, cr_Z, cr_threads, cr_k, cr_todo, cr_run,
                 cr_log>>

InitCR ==
  CrInit /\ IdxIdle /\ AlIdle /\ RdIdle /\ StIdle /\ RsIdle /\ DmIdle /\ SmIdle

NextCR ==
  \/ (CrSeqIter /\ UNCHANGED <<idxVars, alVars, rdVars, stVars, rsVars, dmVars, smVars>>)
  \/ (CrParTake /\ UNCHANGED <<idxVars, alVars, rdVars, stVars, rsVars, dmVars, smVars>>)
  \/ (CrParDone /\ UNCHANGED <<idxVars, alVars, rdVars, stVars, rsVars, dmVars, smVars>>)
  \/ (CrExit /\ UNCHANGED <<idxVars, alVars, rdVars, stVars, rsVars, dmVars, smVars>>)

SpecCR == InitCR /\ [][NextCR]_vars

\* The calls of func entered so far: returned, or with a thread inside.
CrInFlight == {cr_run[t] : t \in {u \in DOMAIN cr_run : cr_run[u] # <<>>}}

CrEntered == cr_log \cup CrInFlight

\* C27: with start = 0, stop = 2^M and X_idx XOR Y_idx a mask below 2^M that
\* is not 0, the index pairs {idx0, idx1} of the iterations k in
\* [0, 2^(M-1)) have idx0 # idx1, are disjoint for distinct k and cover
\* [0, 2^M) exactly once, so two calls of func that threads are inside at
\* the same time never touch a common amplitude; with X_idx XOR Y_idx = 0
\* the pair is idx0 = idx1 = k.
C27_PairsDisjointCover ==
  cr_phase \in {"loop", "done"} =>
    IF BitXor(cr_X, cr_Y) # 0
    THEN /\ \A c \in CrEntered :
              /\ c.inds[1] # c.inds[2]
              /\ c.inds[1] \in 0 .. (2 ^ cr_M - 1)
              /\ c.inds[2] \in 0 .. (2 ^ cr_M - 1)
         /\ \A c, d \in CrEntered :
              c.k # d.k => Range(c.inds) \cap Range(d.inds) = {}
         /\ \A t, u \in DOMAIN cr_run :
              (t # u /\ cr_run[t] # <<>> /\ cr_run[u] # <<>>) =>
                Range(cr_run[t].inds) \cap Range(cr_run[u].inds) = {}
         /\ cr_phase = "done" =>
              /\ UNION {Range(c.inds) : c \in cr_log} = 0 .. (2 ^ cr_M - 1)
              /\ Cardinality(cr_log) = 2 ^ (cr_M - 1)
    ELSE \A c \in CrEntered : c.inds = <<c.k, c.k>>

C27_Witness ==
  /\ cr_phase = "loop" /\ cr_M = 2 /\ cr_threads = 2
  /\ cr_X = 1 /\ cr_Y = 3
  /\ cr_run[1] # <<>> /\ cr_run[2] # <<>>
  /\ cr_run[1].inds = <<1, 3>> /\ cr_run[2].inds = <<0, 2>>

\* C28: the selector mat_sel = (num_Y - 2*Y_count + 2*Z_count) % 4, computed
\* on unsigned 64-bit integers, is always in {0, 1, 2, 3} and is the
\* mathematical value of (num_Y - 2*Y_count + 2*Z_count) mod 4, also when
\* the subtraction wraps around (num_Y < 2*Y_count); for every k exactly
\* one call of func is made, with the matrix of that selector, and the omp
\* and the sequential branch select the same matrix for the same k.
C28_MatSelMod4 ==
  cr_phase \in {"loop", "done"} =>
    /\ \A c \in CrEntered :
         LET nY == count_ones(cr_Y)
             Yc == Cardinality({b \in 0 .. (cr_M - 1) :
                      BitIsSet(cr_Y, b) /\ BitIsSet(c.inds[1], b)})
             Zc == Cardinality({b \in 0 .. (cr_M - 1) :
                      BitIsSet(cr_Z, b) /\ BitIsSet(c.inds[1], b)})
         IN  /\ c.mat_sel \in 0 .. 3
             /\ \E q \in -2 .. 2 : nY - 2 * Yc + 2 * Zc = 4 * q + c.mat_sel
    /\ \A k \in 0 .. (cr_END - 1) : mosq_cr_par(k) = mosq_cr_seq(k)
    /\ \A c, d \in CrEntered : c.k = d.k => c = d
    /\ cr_phase = "done" => {c.k : c \in cr_log} = 0 .. (cr_END - 1)

C28_Witness ==
  /\ cr_phase = "done" /\ cr_M = 2 /\ cr_X = 3 /\ cr_Y = 1 /\ cr_Z = 0
  /\ \E c \in cr_log : c.inds = <<1, 3>> /\ c.mat_sel = 3

\* ---------------------------------------------------------------------
\* State::sample_measure: shots deviates, one container sampling, and the
\* conversion of the samples by npar workers.
\* ---------------------------------------------------------------------

\* shots ranges over 0..MaxShots.
MaxShots == 3

\* The deviates rng.rand(0, 1) may return, abstracted to two values.
RndValues == {0, 1}

convert_range_ceil(shots, i, npar) ==
  <<(shots * i) \div npar, (shots * (i + 1) + npar - 1) \div npar>>

\* ishot = shots * i / npar; iend = shots * (i + 1) / npar.
convert_range(shots, i, npar) ==
  <<(shots * i) \div npar, (shots * (i + 1)) \div npar>>

\* int_t npar = threads_; if (npar > shots) npar = shots.
sample_npar(threads, shots) == IF threads > shots THEN shots ELSE threads

\* Utils::apply_omp_parallel_for(par, 0, n_stop, lambda, nthreads): iteration
\* i may begin when it has not begun yet; without par the iterations run
\* one after the other in increasing order on the calling thread.
apply_omp_parallel_for_ready(par, n_stop, begun, finished, i) ==
  /\ i \in 0..(n_stop - 1)
  /\ i \notin begun
  /\ ~par => /\ \A j \in 0..(i - 1) : j \in begun
             /\ begun \subseteq finished

SmInit ==
  /\ sm_shots \in 0..MaxShots
  /\ sm_threads \in 1..MaxThreads
  /\ sm_calls = <<>>
  /\ sm_npar = -1
  /\ sm_ishot = <<>>
  /\ sm_writes = [s \in 1..sm_shots |-> <<>>]
  /\ sm_pc = "draw"

SmFinished == {i \in DOMAIN sm_ishot : sm_ishot[i][1] >= sm_ishot[i][2]}

\* rnds.push_back(rng.rand(0, 1)), once per shot.
SmDraw ==
  /\ sm_pc = "draw"
  /\ Len(sm_calls) < sm_shots
  /\ \E r \in RndValues :
       sm_calls' = Append(sm_calls, Call("rng.rand", <<>>, r))
  /\ UNCHANGED <<sm_shots, sm_threads, sm_npar, sm_ishot, sm_writes, sm_pc>>

\* allbit_samples = qreg_.sample_measure(rnds); npar; all_samples.
SmSample ==
  /\ sm_pc = "draw"
  /\ Len(sm_calls) >= sm_shots
  /\ sm_calls' = Append(sm_calls,
       Call("qreg_.sample_measure", <<>>,
            [k \in 1..Len(sm_calls) |-> sm_calls[k].arg]))
  /\ sm_npar' = sample_npar(sm_threads, sm_shots)
  /\ sm_pc' = "convert"
  /\ UNCHANGED <<sm_shots, sm_threads, sm_ishot, sm_writes>>

\* convert_to_bit_lambda(i) is entered: ishot and iend.
SmEnter ==
  /\ sm_pc = "convert"
  /\ \E i \in 0..(sm_npar - 1) :
       /\ apply_omp_parallel_for_ready(sm_npar > 1, sm_npar, (DOMAIN sm_ishot),
                                       SmFinished, i)
       /\ sm_ishot' = [j \in (DOMAIN sm_ishot) \cup {i} |->
                         IF j = i THEN convert_range(sm_shots, i, sm_npar)
                                  ELSE sm_ishot[j]]
  /\ UNCHANGED <<sm_shots, sm_threads, sm_calls, sm_npar, sm_writes, sm_pc>>

\* One turn of the loop of worker i: all_samples[ishot].map(...); ishot++.
SmConvert ==
  /\ sm_pc = "convert"
  /\ \E i \in (DOMAIN sm_ishot) :
       /\ sm_ishot[i][1] < sm_ishot[i][2]
       /\ sm_writes' = [sm_writes EXCEPT ![sm_ishot[i][1] + 1] =
                          Append(@, i)]
       /\ sm_ishot' = [sm_ishot EXCEPT ![i] = <<@[1] + 1, @[2]>>]
  /\ UNCHANGED <<sm_shots, sm_threads, sm_calls, sm_npar, sm_pc>>

\* The workers have joined: return all_samples.
SmReturn ==
  /\ sm_pc = "convert"
  /\ (DOMAIN sm_ishot) = 0..(sm_npar - 1)
  /\ SmFinished = (DOMAIN sm_ishot)
  /\ sm_pc' = "returned"
  /\ UNCHANGED <<sm_shots, sm_threads, sm_calls, sm_npar, sm_ishot, sm_writes>>

InitSample ==
  SmInit /\ IdxIdle /\ AlIdle /\ RdIdle /\ StIdle /\ RsIdle /\ DmIdle /\ CrIdle

NextSample ==
  \/ (SmDraw /\ UNCHANGED <<idxVars, alVars, rdVars, stVars, rsVars, dmVars, crVars>>)
  \/ (SmSample /\ UNCHANGED <<idxVars, alVars, rdVars, stVars, rsVars, dmVars, crVars>>)
  \/ (SmEnter /\ UNCHANGED <<idxVars, alVars, rdVars, stVars, rsVars, dmVars, crVars>>)
  \/ (SmConvert /\ UNCHANGED <<idxVars, alVars, rdVars, stVars, rsVars, dmVars, crVars>>)
  \/ (SmReturn /\ UNCHANGED <<idxVars, alVars, rdVars, stVars, rsVars, dmVars, crVars>>)

SpecSample == InitSample /\ [][NextSample]_vars

\* The half-open range of shots the claim gives worker i.
ShotRange(i) ==
  {s \in 0..(sm_shots - 1) :
     /\ (sm_shots * i) \div sm_npar <= s
     /\ s < (sm_shots * (i + 1)) \div sm_npar}

\* The positions in sm_calls of the calls of fn.
CallsOf(fn) == {k \in 1..Len(sm_calls) : sm_calls[k].fn = fn}

\* C29: in sample_measure npar is min(threads, shots); the worker ranges
\* [shots*i/npar, shots*(i+1)/npar) for i in [0, npar) are pairwise disjoint
\* and cover [0, shots) exactly, a worker writes only entries of its own
\* range, no entry of all_samples is written twice and on return every entry
\* has been written exactly once; exactly shots deviates are drawn, all of
\* them before the one sampling of the container.
C29_SampleWorkerRanges ==
  (sm_pc \in {"convert", "returned"}) =>
    /\ sm_npar = (IF sm_threads < sm_shots THEN sm_threads ELSE sm_shots)
    /\ \A i, j \in 0..(sm_npar - 1) :
         i # j => ShotRange(i) \cap ShotRange(j) = {}
    /\ UNION {ShotRange(i) : i \in 0..(sm_npar - 1)} = 0..(sm_shots - 1)
    /\ \A s \in 1..sm_shots :
         /\ Len(sm_writes[s]) <= 1
         /\ \A n \in 1..Len(sm_writes[s]) :
              (s - 1) \in ShotRange(sm_writes[s][n])
         /\ sm_pc = "returned" => Len(sm_writes[s]) = 1
    /\ Cardinality(CallsOf("rng.rand")) = sm_shots
    /\ Cardinality(CallsOf("qreg_.sample_measure")) = 1
    /\ \A k \in CallsOf("rng.rand") :
         \A m \in CallsOf("qreg_.sample_measure") : k < m

\* Three shots on two threads: worker 0 converted shot 0, worker 1 shots 1, 2.
C29_Witness ==
  /\ sm_pc = "returned"
  /\ sm_shots = 3
  /\ sm_threads = 2
  /\ sm_npar = 2
  /\ sm_writes = <<(<<0>>), (<<1>>), (<<1>>)>>
  /\ Len(sm_calls) = 4

=============================================================================
